---- MODULE Spec2Model ----
(***************************************************************************)
(* Form versioning and submission validation of the forms application:     *)
(* the database tables (Form, FormVersion, FormField, FormSubmission,      *)
(* FieldResponse), the request handlers that change them, one database     *)
(* statement per step, and the submission validator as operators.          *)
(***************************************************************************)
EXTENDS Integers, Sequences, FiniteSets, TLC

(***************************************************************************)
(* Bounds of the model.                                                    *)
(***************************************************************************)
NumProcs == 2
MaxVersions == 3
MaxRaceVersions == 2
MaxSubVersions == 2
MaxSubs == 1
MaxTime == 3
MaxLogs == 6
MaxForms == 2
MaxUploads == 1
MaxFiles == 6

Procs == 1..NumProcs

\* the one process that serves the requests when they come one by one
Worker == {1}

(***************************************************************************)
(* JSON values of a payload, as Python sees them after parsing.            *)
(*   k: the Python type; n: the number (bool: 0/1); s: the string;         *)
(*   l: the items of a list.                                               *)
(***************************************************************************)
VNull == [k |-> "null", n |-> 0, s |-> "", l |-> <<>>]
VBool(b) == [k |-> "bool", n |-> IF b THEN 1 ELSE 0, s |-> "", l |-> <<>>]
VInt(i) == [k |-> "int", n |-> i, s |-> "", l |-> <<>>]
VFloat(i) == [k |-> "float", n |-> i, s |-> "", l |-> <<>>]
VStr(t) == [k |-> "str", n |-> 0, s |-> t, l |-> <<>>]
VList(items) == [k |-> "list", n |-> 0, s |-> "", l |-> items]

\* isinstance(value, str)
IsStr(value) == value.k = "str"

\* isinstance(value, (int, float)): bool is a subclass of int in Python
IsIntOrFloat(value) == value.k \in {"int", "float", "bool"}

\* isinstance(value, list)
IsList(value) == value.k = "list"

\* Python's ==: numbers (bool included) compare by value, strings by
\* characters, lists item by item, None only equals None.
RECURSIVE PyEq(_, _)
PyEq(a, b) ==
    IF IsIntOrFloat(a) /\ IsIntOrFloat(b) THEN a.n = b.n
    ELSE IF a.k # b.k THEN FALSE
    ELSE IF a.k = "str" THEN a.s = b.s
    ELSE IF a.k = "list"
         THEN /\ Len(a.l) = Len(b.l)
              /\ \A i \in 1..Len(a.l) : PyEq(a.l[i], b.l[i])
    ELSE TRUE

\* Python's "value in options" on a list: a left-to-right scan with ==
RECURSIVE PyIn(_, _)
PyIn(value, options) ==
    IF options = <<>> THEN FALSE
    ELSE IF PyEq(value, Head(options)) THEN TRUE
    ELSE PyIn(value, Tail(options))

\* config.get(key, default)
ConfigGet(config, key, default) ==
    IF key \in DOMAIN config THEN config[key] ELSE default

\* config.get(key) used as a condition: None and 0 are both falsy
ConfigTruthy(config, key) ==
    key \in DOMAIN config /\ config[key] # 0

\* config.get(key) is not None
ConfigIsSet(config, key) == key \in DOMAIN config

NoError == [err |-> "", field |-> ""]
Error(msg, field) == [err |-> msg, field |-> field.name]

TextTypes == {"text", "textarea", "email"}
OptionTypes == {"select", "radio"}

\* the text block of _validate_field_value
TextCheck(field, value) ==
    IF ~IsStr(value) THEN Error("Expected text value", field)
    ELSE IF /\ ConfigTruthy(field.config, "min_length")
            /\ Len(value.s) < field.config.min_length
         THEN Error("Minimum length", field)
    ELSE IF /\ ConfigTruthy(field.config, "max_length")
            /\ Len(value.s) > field.config.max_length
         THEN Error("Maximum length", field)
    ELSE NoError

\* the number block of _validate_field_value
NumberCheck(field, value) ==
    IF ~IsIntOrFloat(value) THEN Error("Expected number value", field)
    ELSE IF /\ ConfigIsSet(field.config, "min_value")
            /\ value.n < field.config.min_value
         THEN Error("Minimum value", field)
    ELSE IF /\ ConfigIsSet(field.config, "max_value")
            /\ value.n > field.config.max_value
         THEN Error("Maximum value", field)
    ELSE NoError

\* the select/radio block of _validate_field_value
SelectCheck(field, value) ==
    IF ~PyIn(value, ConfigGet(field.config, "options", <<>>))
    THEN Error("Invalid option selected", field)
    ELSE NoError

\* for v in value: if v not in options: raise
RECURSIVE EachInOptions(_, _, _)
EachInOptions(field, items, options) ==
    IF items = <<>> THEN NoError
    ELSE IF ~PyIn(Head(items), options) THEN Error("Invalid option", field)
    ELSE EachInOptions(field, Tail(items), options)

\* a multi_select block that is satisfied by one listed element
MultiSelectCheckAny(field, value) ==
    IF ~IsList(value) THEN Error("Expected list of values", field)
    ELSE IF \E j \in DOMAIN value.l :
                PyIn(value.l[j], ConfigGet(field.config, "options", <<>>))
         THEN NoError
    ELSE Error("Invalid option", field)

\* the multi_select block of _validate_field_value
MultiSelectCheck(field, value) ==
    IF ~IsList(value) THEN Error("Expected list of values", field)
    ELSE EachInOptions(field, value.l,
                       ConfigGet(field.config, "options", <<>>))

\* FormSubmissionCreateSerializer._validate_field_value: the first check
\* that fails raises; the blocks are selected by the field type.
ValidateFieldValue(field, value) ==
    IF field.field_type \in TextTypes THEN TextCheck(field, value)
    ELSE IF field.field_type = "number" THEN NumberCheck(field, value)
    ELSE IF field.field_type \in OptionTypes THEN SelectCheck(field, value)
    ELSE IF field.field_type = "multi_select"
         THEN MultiSelectCheck(field, value)
    ELSE NoError

\* a lookup that takes a field without the key as required
IsRequiredByDefault(field) == ConfigGet(field.config, "required", TRUE)

\* field.config.get('required', False)
IsRequired(field) == ConfigGet(field.config, "required", FALSE)

\* the loop of FormSubmissionCreateSerializer.validate over the fields of
\* the version, in the order of version.fields.all(); fs: the field rows.
RECURSIVE ValidateLoop(_, _)
ValidateLoop(fs, responses) ==
    IF fs = <<>> THEN NoError
    ELSE LET field == Head(fs)
         IN IF IsRequired(field) /\ field.name \notin DOMAIN responses
            THEN Error("required", field)
            ELSE LET e == IF field.name \in DOMAIN responses
                          THEN ValidateFieldValue(field, responses[field.name])
                          ELSE NoError
                 IN IF e # NoError THEN e
                    ELSE ValidateLoop(Tail(fs), responses)

(***************************************************************************)
(* The database and the requests in progress.                              *)
(*   forms, versions, fields, submissions, responses: the tables, a row's  *)
(*   index is its primary key, 0 is NULL; queue: the calls of              *)
(*   send_submission_notification.delay and its retries; logs: the         *)
(*   NotificationLog table; now: the clock behind timezone.now(); pc, loc: *)
(*   where each request or task is and what it holds.                      *)
(***************************************************************************)
VARIABLES forms, versions, fields, submissions, responses, files, queue,
          logs, now,
          pc, loc

vars ==
    <<forms, versions, fields, submissions, responses, files, queue, logs, now,
      pc, loc>>

Users == {"admin", "alice"}

\* request.user.is_staff
IsStaff(user) == user = "admin"

\* FormVersion.schema_json defaults to dict: a document without "fields"
EmptySchema == [has_fields |-> FALSE, fields |-> <<>>]

\* the rows of form.versions
VersionsOf(f) == {i \in DOMAIN versions : versions[i].form = f}

\* the rows of version.fields
FieldsOf(v) == {i \in DOMAIN fields : fields[i].form_version = v}

\* FormField.Meta.ordering = ['order', 'created_at']
FieldBefore(i, j) ==
    \/ fields[i].order < fields[j].order
    \/ fields[i].order = fields[j].order /\ i <= j

RECURSIVE SortFields(_)
SortFields(S) ==
    IF S = {} THEN <<>>
    ELSE LET m == CHOOSE i \in S : \A j \in S : FieldBefore(i, j)
         IN <<m>> \o SortFields(S \ {m})

\* version.fields.all(): the ids of the version's fields, in Meta.ordering
FieldIds(v) == SortFields(FieldsOf(v))

\* version.fields.all(): the rows
FieldRows(v) == [i \in 1..Len(FieldIds(v)) |-> fields[FieldIds(v)[i]]]

\* {field.name: field for field in version.fields.all()}: name -> field id
FieldByName(v) ==
    [n \in {fields[i].name : i \in FieldsOf(v)} |->
        CHOOSE i \in FieldsOf(v) : fields[i].name = n]

Max(S) == CHOOSE x \in S : \A y \in S : y <= x
Min(S) == CHOOSE x \in S : \A y \in S : x <= y

\* create_new_version, lines 58-59: the number after the highest one
NextVersionNumberLowest(f) ==
    IF VersionsOf(f) = {} THEN 1
    ELSE Min({versions[i].version_number : i \in VersionsOf(f)}) + 1

NextVersionNumber(f) ==
    IF VersionsOf(f) = {} THEN 1
    ELSE Max({versions[i].version_number : i \in VersionsOf(f)}) + 1

\* FormVersion.Meta.unique_together = ['form', 'version_number']
VersionConflict(f, n) ==
    \E i \in VersionsOf(f) : versions[i].version_number = n

\* FormField.Meta.unique_together = ['form_version', 'name']
FieldConflict(v, name) == \E i \in FieldsOf(v) : fields[i].name = name

NoInst == [is_active |-> FALSE, current_version |-> 0]
NoSub == [form_version |-> 0, submitted_by |-> "", status |-> "",
          submitted_at |-> 0, reviewed_by |-> "", reviewed_at |-> 0,
          review_notes |-> ""]
EmptyPayload == [n \in {} |-> VNull]

\* send_submission_notification.delay(str(submission.id)): the message of
\* a first execution of the task (self.request.retries is 0)
Message(s) == [submission_id |-> s, retries |-> 0]

\* no file part in the request: request.FILES.get('file') is None
NoFile == [name |-> "", size |-> 0]

NoField == [form_version |-> 0, name |-> "", field_type |-> "", order |-> 0,
            config |-> [n \in {} |-> 0]]

\* what a request, or a task, holds when none is in progress
Idle == [op |-> "", user |-> "", form |-> 0, inst |-> NoInst,
         attrs |-> "", has_fields |-> FALSE, fdata |-> <<>>,
         vnum |-> 0, ver |-> 0,
         payload |-> EmptyPayload, status |-> "", notes |-> "",
         sub |-> 0, sinst |-> NoSub, todo |-> <<>>, err |-> NoError,
         retries |-> 0, log |-> 0, orig |-> 0,
         resp |-> 0, file |-> NoFile, field |-> NoField]

Busy(p) == pc[p] \notin {"idle", "done"}

\* the other requests are between handlers
AllOthersIdle(p) == \A q \in Procs \ {p} : pc[q] = "idle"

\* the requests that have yet to insert their FormVersion
WillInsertVersion(q) ==
    \/ pc[q] \in {"cnv_read", "cnv_insert"}
    \/ pc[q] = "upd_save" /\ loc[q].has_fields

\* the requests that have yet to insert their FormSubmission
WillInsertSubmission(q) ==
    pc[q] \in {"val_form", "val_fields", "crt_form", "crt_insert"}

\* room for one more row, or one more tick of the clock, within a bound
VersionBudget(max) ==
    Len(versions) + Cardinality({q \in Procs : WillInsertVersion(q)}) < max

SubmissionBudget(max) ==
    Len(submissions) + Cardinality({q \in Procs : WillInsertSubmission(q)})
        < max

ClockBudget(max) == now + Cardinality({q \in Procs : Busy(q)}) <= max

(***************************************************************************)
(* The requests' inputs.                                                   *)
(***************************************************************************)
FieldA == [name |-> "a", field_type |-> "text", order |-> 1,
           config |-> [required |-> TRUE]]
FieldB == [name |-> "b", field_type |-> "number", order |-> 0,
           config |-> [min_value |-> 0]]

\* the "fields" of a form update
FieldsDataChoices == {<<FieldA>>, <<FieldA, FieldB>>}

\* is_active in a form update: absent, true or false
AttrsChoices == {"keep", "activate", "deactivate"}

(***************************************************************************)
(* Form.create_new_version(self), one database statement per step.        *)
(***************************************************************************)
\* the FormVersion row that FormVersion.objects.create inserts
NewVersionRow(f, n) ==
    [form |-> f, version_number |-> n, schema_json |-> EmptySchema]

\* self.current_version = new_version; self.save(): the whole Form row is
\* written from the instance the request holds
SavedForm(inst, v) == [inst EXCEPT !.current_version = v]

\* a direct call of form.create_new_version() on a loaded form
StartCnv(p, f) ==
    /\ pc[p] = "idle"
    /\ f \in DOMAIN forms
    /\ loc' = [loc EXCEPT ![p] = [Idle EXCEPT !.op = "cnv", !.form = f,
                                              !.inst = forms[f]]]
    /\ pc' = [pc EXCEPT ![p] = "cnv_read"]
    /\ UNCHANGED <<forms, versions, fields, submissions,
                 responses, queue, logs, now, files>>

\* last_version = self.versions.order_by('-version_number').first()
CnvRead(p) ==
    /\ pc[p] = "cnv_read"
    /\ loc' = [loc EXCEPT ![p].vnum = NextVersionNumber(loc[p].form)]
    /\ pc' = [pc EXCEPT ![p] = "cnv_insert"]
    /\ UNCHANGED <<forms, versions, fields, submissions,
                 responses, queue, logs, now, files>>

\* FormVersion.objects.create(form=self, version_number=version_number):
\* the unique constraint raises IntegrityError, which ends the request
CnvInsert(p) ==
    /\ pc[p] = "cnv_insert"
    /\ IF VersionConflict(loc[p].form, loc[p].vnum)
       THEN /\ loc' = [loc EXCEPT ![p].err =
                          [err |-> "IntegrityError", field |-> ""]]
            /\ pc' = [pc EXCEPT ![p] = "done"]
            /\ UNCHANGED versions
       ELSE /\ versions' = Append(versions,
                                  NewVersionRow(loc[p].form, loc[p].vnum))
            /\ loc' = [loc EXCEPT ![p].ver = Len(versions) + 1]
            /\ pc' = [pc EXCEPT ![p] = "cnv_save"]
    /\ UNCHANGED <<forms, fields, submissions, responses, queue, logs,
                   now, files>>

\* where the caller of create_new_version goes on
AfterCnv(l) ==
    IF l.op = "cnv" THEN "done"
    ELSE IF l.op = "duplicate"
         THEN IF l.orig # 0 THEN "dup_read" ELSE "done"
    ELSE IF l.op = "form_create"
         THEN IF l.fdata = <<>> THEN "frm_schema" ELSE "frm_field"
    ELSE IF l.fdata = <<>> THEN "upd_schema" ELSE "upd_field"

\* self.current_version = new_version; self.save(); return new_version
CnvSave(p) ==
    /\ pc[p] = "cnv_save"
    /\ forms' = [forms EXCEPT ![loc[p].form] =
                    SavedForm(loc[p].inst, loc[p].ver)]
    /\ loc' = [loc EXCEPT ![p].inst = SavedForm(loc[p].inst, loc[p].ver)]
    /\ pc' = [pc EXCEPT ![p] = AfterCnv(loc[p])]
    /\ UNCHANGED <<versions, fields, submissions, responses, queue, logs,
                   now, files>>

(***************************************************************************)
(* FormViewSet update / partial_update: FormUpdateSerializer.update.       *)
(***************************************************************************)
\* for attr, value in validated_data.items(): setattr(instance, attr, value)
SetAttrs(inst, attrs) ==
    IF attrs = "activate" THEN [inst EXCEPT !.is_active = TRUE]
    ELSE IF attrs = "deactivate" THEN [inst EXCEPT !.is_active = FALSE]
    ELSE inst

\* IsAdminOrReadOnly, then get_object(): the form is loaded
StartUpdate(p, user, f, attrs, has_fields, fdata) ==
    /\ pc[p] = "idle"
    /\ IsStaff(user)
    /\ f \in DOMAIN forms
    /\ ~has_fields => fdata = <<>>
    /\ loc' = [loc EXCEPT ![p] = [Idle EXCEPT !.op = "update", !.user = user,
                                     !.form = f, !.inst = forms[f],
                                     !.attrs = attrs,
                                     !.has_fields = has_fields,
                                     !.fdata = fdata]]
    /\ pc' = [pc EXCEPT ![p] = "upd_save"]
    /\ UNCHANGED <<forms, versions, fields, submissions,
                 responses, queue, logs, now, files>>

\* the metadata is set on the instance; instance.save()
UpdSave(p) ==
    /\ pc[p] = "upd_save"
    /\ forms' = [forms EXCEPT ![loc[p].form] =
                    SetAttrs(loc[p].inst, loc[p].attrs)]
    /\ loc' = [loc EXCEPT ![p].inst = SetAttrs(loc[p].inst, loc[p].attrs)]
    /\ pc' = [pc EXCEPT ![p] = IF loc[p].has_fields THEN "cnv_read"
                                ELSE "done"]
    /\ UNCHANGED <<versions, fields, submissions, responses, queue, logs,
                   now, files>>

\* the FormField row of FormField.objects.create(form_version=version, **d)
NewFieldRow(v, d) ==
    [form_version |-> v, name |-> d.name, field_type |-> d.field_type,
     order |-> d.order, config |-> d.config]

\* for field_data in fields_data: FormField.objects.create(...)
UpdField(p) ==
    /\ pc[p] = "upd_field"
    /\ IF FieldConflict(loc[p].ver, Head(loc[p].fdata).name)
       THEN /\ loc' = [loc EXCEPT ![p].err =
                          [err |-> "IntegrityError", field |-> ""]]
            /\ pc' = [pc EXCEPT ![p] = "done"]
            /\ UNCHANGED fields
       ELSE /\ fields' = Append(fields,
                                NewFieldRow(loc[p].ver, Head(loc[p].fdata)))
            /\ loc' = [loc EXCEPT ![p].fdata = Tail(loc[p].fdata)]
            /\ pc' = [pc EXCEPT ![p] = IF Tail(loc[p].fdata) = <<>>
                                        THEN "upd_schema" ELSE "upd_field"]
    /\ UNCHANGED <<forms, versions, submissions, responses, queue, logs,
                   now, files>>

\* one entry of FormUpdateSerializer._build_schema_json: no validation_rules
SchemaEntryOfUpdate(i) ==
    [id |-> i, name |-> fields[i].name, label |-> fields[i].name,
     type |-> fields[i].field_type, order |-> fields[i].order,
     config |-> fields[i].config, has_rules |-> FALSE]

\* FormUpdateSerializer._build_schema_json(version)
BuildSchemaJsonOfUpdate(v) ==
    [has_fields |-> TRUE,
     fields |-> [k \in 1..Len(FieldIds(v)) |->
                    SchemaEntryOfUpdate(FieldIds(v)[k])]]

\* version.schema_json = ...; version.save(): the rows that become of it
SchemaSavedAll(v, row) ==
    [i \in DOMAIN versions |->
        IF versions[i].form = row.form
        THEN [versions[i] EXCEPT !.schema_json = row.schema_json]
        ELSE versions[i]]

SchemaSaved(v, row) == [versions EXCEPT ![v] = row]

\* version.schema_json = self._build_schema_json(version); version.save()
UpdSchema(p) ==
    /\ pc[p] = "upd_schema"
    /\ versions' = SchemaSaved(loc[p].ver,
                      [form |-> loc[p].form, version_number |-> loc[p].vnum,
                       schema_json |-> BuildSchemaJsonOfUpdate(loc[p].ver)])
    /\ pc' = [pc EXCEPT ![p] = "done"]
    /\ UNCHANGED <<forms, fields, submissions, responses,
                 queue, logs, now, loc, files>>

\* the response is sent
Return(p) ==
    /\ pc[p] = "done"
    /\ pc' = [pc EXCEPT ![p] = "idle"]
    /\ loc' = [loc EXCEPT ![p] = Idle]
    /\ UNCHANGED <<forms, versions, fields, submissions,
                 responses, queue, logs, now, files>>

\* a form as Form.objects.create(name=...) leaves it: active, no version
NewFormRow == [is_active |-> TRUE, current_version |-> 0]

(***************************************************************************)
(* FormViewSet create: FormCreateSerializer.create.                        *)
(***************************************************************************)
\* IsAdminOrReadOnly; the serializer accepts the metadata and the "fields"
StartFormCreate(p, user, attrs, fdata) ==
    /\ pc[p] = "idle"
    /\ IsStaff(user)
    /\ loc' = [loc EXCEPT ![p] = [Idle EXCEPT !.op = "form_create",
                                     !.user = user, !.attrs = attrs,
                                     !.has_fields = TRUE, !.fdata = fdata]]
    /\ pc' = [pc EXCEPT ![p] = "frm_insert"]
    /\ UNCHANGED <<forms, versions, fields, submissions,
                 responses, queue, logs, now, files>>

\* form = Form.objects.create(**validated_data)
FrmInsert(p) ==
    /\ pc[p] = "frm_insert"
    /\ forms' = Append(forms, SetAttrs(NewFormRow, loc[p].attrs))
    /\ loc' = [loc EXCEPT ![p].form = Len(forms) + 1,
                          ![p].inst = SetAttrs(NewFormRow, loc[p].attrs)]
    /\ pc' = [pc EXCEPT ![p] = "cnv_read"]
    /\ UNCHANGED <<versions, fields, submissions, responses, queue, logs,
                   now, files>>

\* for field_data in fields_data: FormField.objects.create(...)
FrmField(p) ==
    /\ pc[p] = "frm_field"
    /\ IF FieldConflict(loc[p].ver, Head(loc[p].fdata).name)
       THEN /\ loc' = [loc EXCEPT ![p].err =
                          [err |-> "IntegrityError", field |-> ""]]
            /\ pc' = [pc EXCEPT ![p] = "done"]
            /\ UNCHANGED fields
       ELSE /\ fields' = Append(fields,
                                NewFieldRow(loc[p].ver, Head(loc[p].fdata)))
            /\ loc' = [loc EXCEPT ![p].fdata = Tail(loc[p].fdata)]
            /\ pc' = [pc EXCEPT ![p] = IF Tail(loc[p].fdata) = <<>>
                                        THEN "frm_schema" ELSE "frm_field"]
    /\ UNCHANGED <<forms, versions, submissions, responses, queue, logs,
                   now, files>>

\* one entry of FormCreateSerializer._build_schema_json: with the key
\* validation_rules
SchemaEntry(i) ==
    [id |-> i, name |-> fields[i].name, label |-> fields[i].name,
     type |-> fields[i].field_type, order |-> fields[i].order,
     config |-> fields[i].config, has_rules |-> TRUE]

\* FormCreateSerializer._build_schema_json(version)
BuildSchemaJson(v) ==
    [has_fields |-> TRUE,
     fields |-> [k \in 1..Len(FieldIds(v)) |-> SchemaEntry(FieldIds(v)[k])]]

\* version.schema_json = self._build_schema_json(version); version.save()
FrmSchema(p) ==
    /\ pc[p] = "frm_schema"
    /\ versions' = SchemaSaved(loc[p].ver,
                      [form |-> loc[p].form, version_number |-> loc[p].vnum,
                       schema_json |-> BuildSchemaJson(loc[p].ver)])
    /\ pc' = [pc EXCEPT ![p] = "done"]
    /\ UNCHANGED <<forms, fields, submissions, responses,
                 queue, logs, now, loc, files>>

(***************************************************************************)
(* FormViewSet.duplicate.                                                  *)
(***************************************************************************)
\* IsAdminOrReadOnly on a POST; original_form = self.get_object()
StartDuplicate(p, user, f) ==
    /\ pc[p] = "idle"
    /\ IsStaff(user)
    /\ f \in DOMAIN forms
    /\ loc' = [loc EXCEPT ![p] = [Idle EXCEPT !.op = "duplicate",
                                     !.user = user,
                                     !.orig = forms[f].current_version]]
    /\ pc' = [pc EXCEPT ![p] = "dup_insert"]
    /\ UNCHANGED <<forms, versions, fields, submissions,
                 responses, queue, logs, now, files>>

\* the row of Form.objects.create(name=..., is_active=False)
DuplicateFormRow == [is_active |-> FALSE, current_version |-> 0]

\* new_form = Form.objects.create(...)
DupInsert(p) ==
    /\ pc[p] = "dup_insert"
    /\ forms' = Append(forms, DuplicateFormRow)
    /\ loc' = [loc EXCEPT ![p].form = Len(forms) + 1,
                          ![p].inst = DuplicateFormRow]
    /\ pc' = [pc EXCEPT ![p] = "cnv_read"]
    /\ UNCHANGED <<versions, fields, submissions, responses, queue, logs,
                   now, files>>

\* original_fields = original_form.current_version.fields.all()
DupRead(p) ==
    /\ pc[p] = "dup_read"
    /\ loc' = [loc EXCEPT ![p].todo = FieldIds(loc[p].orig)]
    /\ pc' = [pc EXCEPT ![p] = IF FieldIds(loc[p].orig) = <<>>
                                THEN "done" ELSE "dup_field"]
    /\ UNCHANGED <<forms, versions, fields, submissions,
                 responses, queue, logs, now, files>>

\* for field in original_fields: FormField.objects.create(...); the handler
\* then returns: it writes no schema_json
DupField(p) ==
    /\ pc[p] = "dup_field"
    /\ fields' = Append(fields,
                        NewFieldRow(loc[p].ver, fields[Head(loc[p].todo)]))
    /\ loc' = [loc EXCEPT ![p].todo = Tail(loc[p].todo)]
    /\ pc' = [pc EXCEPT ![p] = IF Tail(loc[p].todo) = <<>>
                                THEN "done" ELSE "dup_field"]
    /\ UNCHANGED <<forms, versions, submissions, responses, queue, logs,
                   now, files>>

(***************************************************************************)
(* FormSubmissionViewSet create: FormSubmissionCreateSerializer and         *)
(* perform_create.                                                         *)
(***************************************************************************)
\* the keys a payload may carry, in the order the payloads list them
NameOrder == <<"a", "b", "z">>

PayloadA == [n \in {"a"} |-> VStr("x")]
PayloadAB == [n \in {"a", "b"} |-> IF n = "a" THEN VStr("x") ELSE VInt(1)]
PayloadAZ == [n \in {"a", "z"} |-> IF n = "a" THEN VStr("x") ELSE VInt(1)]
PayloadB == [n \in {"b"} |-> VInt(1)]

\* the "responses" of a submission create
PayloadChoices == {PayloadA, PayloadAB, PayloadAZ, PayloadB}

\* status = ChoiceField(choices=['draft', 'submitted'])
CreateStatusChoices == {"draft", "submitted"}

\* a validate_form_id that looks the form up by id alone
ValidateFormIdAnyState(f) ==
    IF f \notin DOMAIN forms
    THEN [err |-> "Form not found or inactive", field |-> "form_id"]
    ELSE IF forms[f].current_version = 0
         THEN [err |-> "Form has no active version", field |-> "form_id"]
    ELSE NoError

\* validate_form_id: Form.objects.get(id=value, is_active=True), then
\* form.current_version
ValidateFormId(f) ==
    IF f \notin DOMAIN forms \/ ~forms[f].is_active
    THEN [err |-> "Form not found or inactive", field |-> "form_id"]
    ELSE IF forms[f].current_version = 0
         THEN [err |-> "Form has no active version", field |-> "form_id"]
    ELSE NoError

\* is_valid() starts with validate_form_id
StartSubCreate(p, user, f, payload, status) ==
    /\ pc[p] = "idle"
    /\ loc' = [loc EXCEPT ![p] = [Idle EXCEPT !.op = "sub_create",
                                     !.user = user, !.form = f,
                                     !.payload = payload, !.status = status,
                                     !.err = ValidateFormId(f)]]
    /\ pc' = [pc EXCEPT ![p] = IF ValidateFormId(f) = NoError
                                THEN "val_form" ELSE "done"]
    /\ UNCHANGED <<forms, versions, fields, submissions,
                 responses, queue, logs, now, files>>

\* validate: form = Form.objects.get(id=...); version = form.current_version
ValForm(p) ==
    /\ pc[p] = "val_form"
    /\ loc' = [loc EXCEPT ![p].ver = forms[loc[p].form].current_version]
    /\ pc' = [pc EXCEPT ![p] = "val_fields"]
    /\ UNCHANGED <<forms, versions, fields, submissions,
                 responses, queue, logs, now, files>>

\* validate: the version's fields are read and the payload is checked
Validate(v, data) == ValidateLoop(FieldRows(v), data)

ValFields(p) ==
    /\ pc[p] = "val_fields"
    /\ loc' = [loc EXCEPT ![p].err = Validate(loc[p].ver, loc[p].payload)]
    /\ pc' = [pc EXCEPT ![p] =
                 IF Validate(loc[p].ver, loc[p].payload) = NoError
                 THEN "crt_form" ELSE "done"]
    /\ UNCHANGED <<forms, versions, fields, submissions,
                 responses, queue, logs, now, files>>

\* create: form = Form.objects.get(id=...); version = form.current_version
CrtForm(p) ==
    /\ pc[p] = "crt_form"
    /\ loc' = [loc EXCEPT ![p].ver = forms[loc[p].form].current_version]
    /\ pc' = [pc EXCEPT ![p] = "crt_insert"]
    /\ UNCHANGED <<forms, versions, fields, submissions,
                 responses, queue, logs, now, files>>

\* the row of FormSubmission.objects.create(form_version=version,
\* submitted_by=user, status=validated_data['status'])
NewSubmissionRowDraft(v, user, status) ==
    [NoSub EXCEPT !.form_version = v, !.submitted_by = user,
                  !.status = "draft"]

NewSubmissionRow(v, user, status) ==
    [NoSub EXCEPT !.form_version = v, !.submitted_by = user,
                  !.status = status]

CrtInsert(p) ==
    /\ pc[p] = "crt_insert"
    /\ submissions' = Append(submissions,
          NewSubmissionRow(loc[p].ver, loc[p].user, loc[p].status))
    /\ loc' = [loc EXCEPT
          ![p].sub = Len(submissions) + 1,
          ![p].sinst = NewSubmissionRow(loc[p].ver, loc[p].user, loc[p].status)]
    /\ pc' = [pc EXCEPT ![p] = IF loc[p].status = "submitted"
                                THEN "crt_stamp" ELSE "crt_fields"]
    /\ UNCHANGED <<forms, versions, fields, responses, queue, logs,
                   now, files>>

\* submission.submitted_at = timezone.now()
Stamped(sinst, t) == [sinst EXCEPT !.submitted_at = t]

\* if validated_data['status'] == 'submitted': the stamp and save()
CrtStamp(p) ==
    /\ pc[p] = "crt_stamp"
    /\ submissions' = [submissions EXCEPT ![loc[p].sub] =
                          Stamped(loc[p].sinst, now)]
    /\ loc' = [loc EXCEPT ![p].sinst = Stamped(loc[p].sinst, now)]
    /\ now' = now + 1
    /\ pc' = [pc EXCEPT ![p] = "crt_fields"]
    /\ UNCHANGED <<forms, versions, fields, responses, queue, logs, files>>

\* a loop of create without "if field_name in fields"
ResponseNamesAll(v, payload) ==
    SelectSeq(NameOrder, LAMBDA n : n \in DOMAIN payload)

\* the payload keys the loop of create makes a FieldResponse for:
\* "if field_name in fields", fields read from version.fields.all()
ResponseNames(v, payload) ==
    SelectSeq(NameOrder,
              LAMBDA n : n \in DOMAIN payload /\ n \in DOMAIN FieldByName(v))

\* where create goes on once no FieldResponse is left to make
AfterResponses(l) == IF l.status = "submitted" THEN "crt_delay" ELSE "done"

\* fields = {field.name: field for field in version.fields.all()}
CrtFields(p) ==
    /\ pc[p] = "crt_fields"
    /\ loc' = [loc EXCEPT ![p].todo = ResponseNames(loc[p].ver, loc[p].payload)]
    /\ pc' = [pc EXCEPT ![p] =
                 IF ResponseNames(loc[p].ver, loc[p].payload) = <<>>
                 THEN AfterResponses(loc[p]) ELSE "crt_resp"]
    /\ UNCHANGED <<forms, versions, fields, submissions,
                 responses, queue, logs, now, files>>

\* the field a FieldResponse for payload key n refers to: fields[field_name]
ResponseField(v, n) ==
    IF n \in DOMAIN FieldByName(v) THEN FieldByName(v)[n] ELSE 0

\* FieldResponse.objects.create(submission=..., field=fields[name], value=...)
CrtResp(p) ==
    /\ pc[p] = "crt_resp"
    /\ responses' = Append(responses,
          [submission |-> loc[p].sub,
           field |-> ResponseField(loc[p].ver, Head(loc[p].todo)),
           value |-> loc[p].payload[Head(loc[p].todo)]])
    /\ loc' = [loc EXCEPT ![p].todo = Tail(loc[p].todo)]
    /\ pc' = [pc EXCEPT ![p] = IF Tail(loc[p].todo) = <<>>
                                THEN AfterResponses(loc[p]) ELSE "crt_resp"]
    /\ UNCHANGED <<forms, versions, fields, submissions, queue, logs,
                   now, files>>

\* perform_create: send_submission_notification.delay(str(submission.id))
CrtDelay(p) ==
    /\ pc[p] = "crt_delay"
    /\ queue' = Append(queue, Message(loc[p].sub))
    /\ pc' = [pc EXCEPT ![p] = "done"]
    /\ UNCHANGED <<forms, versions, fields, submissions,
                 responses, now, loc, logs, files>>

(***************************************************************************)
(* FormSubmissionViewSet.submit and FormSubmissionViewSet.review.          *)
(***************************************************************************)
\* get_queryset: non-staff users only see their own submissions
Visible(user, s) ==
    /\ s \in DOMAIN submissions
    /\ IsStaff(user) \/ submissions[s].submitted_by = user

\* a submit without the check of the current status
SubmitErrorAnyStatus(user, s) ==
    IF ~Visible(user, s) THEN [err |-> "Not found", field |-> ""]
    ELSE IF submissions[s].submitted_by # user /\ ~IsStaff(user)
         THEN [err |-> "Permission denied", field |-> ""]
    ELSE NoError

\* what submit answers before it changes anything
SubmitError(user, s) ==
    IF ~Visible(user, s) THEN [err |-> "Not found", field |-> ""]
    ELSE IF submissions[s].submitted_by # user /\ ~IsStaff(user)
         THEN [err |-> "Permission denied", field |-> ""]
    ELSE IF submissions[s].status # "draft"
         THEN [err |-> "Only draft submissions can be submitted",
               field |-> ""]
    ELSE NoError

\* submit: get_object(), the permission check and the status check
StartSubmit(p, user, s) ==
    /\ pc[p] = "idle"
    /\ s \in DOMAIN submissions
    /\ loc' = [loc EXCEPT ![p] = [Idle EXCEPT !.op = "submit", !.user = user,
                                     !.sub = s,
                                     !.sinst = IF Visible(user, s)
                                               THEN submissions[s] ELSE NoSub,
                                     !.err = SubmitError(user, s)]]
    /\ pc' = [pc EXCEPT ![p] = IF SubmitError(user, s) = NoError
                                THEN "sbm_save" ELSE "done"]
    /\ UNCHANGED <<forms, versions, fields, submissions,
                 responses, queue, logs, now, files>>

\* submission.status = 'submitted'; submission.submitted_at = timezone.now()
SubmittedOnCurrent(sinst, t) ==
    [sinst EXCEPT !.status = "submitted", !.submitted_at = t,
                  !.form_version =
                      forms[versions[sinst.form_version].form].current_version]

Submitted(sinst, t) ==
    [sinst EXCEPT !.status = "submitted", !.submitted_at = t]

\* submission.save(): the whole row is written from the loaded instance
SbmSave(p) ==
    /\ pc[p] = "sbm_save"
    /\ submissions' = [submissions EXCEPT ![loc[p].sub] =
                          Submitted(loc[p].sinst, now)]
    /\ loc' = [loc EXCEPT ![p].sinst = Submitted(loc[p].sinst, now)]
    /\ now' = now + 1
    /\ pc' = [pc EXCEPT ![p] = "sbm_delay"]
    /\ UNCHANGED <<forms, versions, fields, responses, queue, logs, files>>

\* send_submission_notification.delay(str(submission.id))
SbmDelay(p) ==
    /\ pc[p] = "sbm_delay"
    /\ queue' = Append(queue, Message(loc[p].sub))
    /\ pc' = [pc EXCEPT ![p] = "done"]
    /\ UNCHANGED <<forms, versions, fields, submissions,
                 responses, now, loc, logs, files>>

\* request.data.get('status') of a review
ReviewStatusChoices == {"under_review", "approved", "rejected", "draft"}

\* request.data.get('review_notes', '')
ReviewNotesChoices == {"ok"}

\* what review answers before it changes anything
ReviewError(user, s, new_status) ==
    IF ~IsStaff(user) THEN [err |-> "Permission denied", field |-> ""]
    ELSE IF s \notin DOMAIN submissions
         THEN [err |-> "Not found", field |-> ""]
    ELSE IF new_status \notin {"under_review", "approved", "rejected"}
         THEN [err |-> "Invalid status", field |-> ""]
    ELSE NoError

\* review: IsAdminUser, get_object() and the check of the new status
StartReview(p, user, s, new_status, notes) ==
    /\ pc[p] = "idle"
    /\ s \in DOMAIN submissions
    /\ loc' = [loc EXCEPT ![p] = [Idle EXCEPT !.op = "review", !.user = user,
                                     !.sub = s, !.status = new_status,
                                     !.notes = notes,
                                     !.sinst = IF IsStaff(user)
                                               THEN submissions[s] ELSE NoSub,
                                     !.err = ReviewError(user, s, new_status)]]
    /\ pc' = [pc EXCEPT ![p] = IF ReviewError(user, s, new_status) = NoError
                                THEN "rev_save" ELSE "done"]
    /\ UNCHANGED <<forms, versions, fields, submissions,
                 responses, queue, logs, now, files>>

\* the four assignments of review
Reviewed(sinst, new_status, user, t, notes) ==
    [sinst EXCEPT !.status = new_status, !.reviewed_by = user,
                  !.reviewed_at = t, !.review_notes = notes]

\* submission.save(): the whole row is written from the loaded instance
RevSave(p) ==
    /\ pc[p] = "rev_save"
    /\ submissions' = [submissions EXCEPT ![loc[p].sub] =
          Reviewed(loc[p].sinst, loc[p].status, loc[p].user, now, loc[p].notes)]
    /\ now' = now + 1
    /\ pc' = [pc EXCEPT ![p] = "done"]
    /\ UNCHANGED <<forms, versions, fields, responses, queue, logs,
                   loc, files>>

(***************************************************************************)
(* FormSubmissionViewSet.update and partial_update (ModelViewSet), served  *)
(* with FormSubmissionDetailSerializer.                                    *)
(***************************************************************************)
\* FormSubmission.STATUS_CHOICES
StatusChoices ==
    {"draft", "submitted", "under_review", "approved", "rejected"}

ReviewStatuses == {"under_review", "approved", "rejected"}

\* the status of the request data: "" when the key is absent
UpdateStatusChoices == {""} \cup StatusChoices

\* whether the request data carries reviewed_by, reviewed_at, review_notes
UpdateReviewChoices == {"", "review_fields"}

\* the reviewed_at a client sends
ClientTime == 1

\* get_object() over get_queryset()
UpdateSubError(user, s) ==
    IF ~Visible(user, s) THEN [err |-> "Not found", field |-> ""] ELSE NoError

\* update: get_object(), then the serializer validates the writable fields
\* (every field of Meta.fields that is not read-only)
StartUpdateSub(p, user, s, status, review) ==
    /\ pc[p] = "idle"
    /\ s \in DOMAIN submissions
    /\ loc' = [loc EXCEPT ![p] = [Idle EXCEPT !.op = "sub_update",
                                     !.user = user, !.sub = s,
                                     !.status = status, !.attrs = review,
                                     !.sinst = IF Visible(user, s)
                                               THEN submissions[s] ELSE NoSub,
                                     !.err = UpdateSubError(user, s)]]
    /\ pc' = [pc EXCEPT ![p] = IF UpdateSubError(user, s) = NoError
                                THEN "pat_save" ELSE "done"]
    /\ UNCHANGED <<forms, versions, fields, submissions,
                 responses, queue, logs, now, files>>

\* ModelSerializer.update: setattr for each validated field
Updated(sinst, status, review) ==
    [sinst EXCEPT
        !.status = IF status = "" THEN @ ELSE status,
        !.reviewed_by = IF review = "" THEN @ ELSE "admin",
        !.reviewed_at = IF review = "" THEN @ ELSE ClientTime,
        !.review_notes = IF review = "" THEN @ ELSE "ok"]

\* instance.save()
PatSave(p) ==
    /\ pc[p] = "pat_save"
    /\ submissions' = [submissions EXCEPT ![loc[p].sub] =
          Updated(loc[p].sinst, loc[p].status, loc[p].attrs)]
    /\ pc' = [pc EXCEPT ![p] = "done"]
    /\ UNCHANGED <<forms, versions, fields, responses, queue, logs, now,
                   loc, files>>

(***************************************************************************)
(* tasks.py: send_submission_notification and retry_failed_notifications.  *)
(***************************************************************************)
\* @shared_task(max_retries=3)
max_retries == 3

\* retry_failed_notifications: attempts__lt=3
RetryAttemptsLimit == 3

\* NotificationLog.objects.create(..., status='pending'): attempts is 0
PendingLog(s, target) ==
    [submission |-> s, channel |-> target.channel,
     recipient |-> target.recipient, status |-> "pending", attempts |-> 0]

\* the row the except block of send_submission_notification makes
SystemLog(s, retries) ==
    [submission |-> s, channel |-> "email", recipient |-> "system",
     status |-> "failed", attempts |-> retries + 1]

\* what one execution of send_submission_notification delivers: an email
\* to each of form.notification_emails, then the webhook if one is set
TargetsOf(s) ==
    LET form == forms[versions[submissions[s].form_version].form]
    IN [i \in 1..Len(form.notification_emails) |->
           [submission |-> s, channel |-> "email",
            recipient |-> form.notification_emails[i]]]
       \o (IF form.webhook_url = "" THEN <<>>
           ELSE <<[submission |-> s, channel |-> "webhook",
                   recipient |-> form.webhook_url]>>)

\* a worker takes the next message of send_submission_notification
StartTask(p) ==
    /\ pc[p] = "idle"
    /\ queue # <<>>
    /\ queue' = Tail(queue)
    /\ loc' = [loc EXCEPT ![p] =
                  [Idle EXCEPT !.op = "notify",
                               !.sub = Head(queue).submission_id,
                               !.retries = Head(queue).retries,
                               !.todo = TargetsOf(Head(queue).submission_id)]]
    /\ pc' = [pc EXCEPT ![p] =
                 IF TargetsOf(Head(queue).submission_id) = <<>>
                 THEN "done" ELSE "ntf_log"]
    /\ UNCHANGED <<forms, versions, fields, submissions, responses, logs,
                   now, files>>

\* NotificationLog.objects.filter(status='failed', attempts__lt=3), in
\* Meta.ordering (newest first)
FailedNotifications ==
    LET eligible == {i \in DOMAIN logs :
                        /\ logs[i].status = "failed"
                        /\ logs[i].attempts < RetryAttemptsLimit}
        ids == SelectSeq([k \in 1..Len(logs) |-> Len(logs) + 1 - k],
                         LAMBDA i : i \in eligible)
    IN [k \in 1..Len(ids) |->
           [submission |-> logs[ids[k]].submission,
            channel |-> logs[ids[k]].channel,
            recipient |-> logs[ids[k]].recipient]]

\* the periodic retry_failed_notifications starts: the queryset is read
StartRetryFailed(p) ==
    /\ pc[p] = "idle"
    /\ loc' = [loc EXCEPT ![p] =
                  [Idle EXCEPT !.op = "retry_failed",
                               !.todo = FailedNotifications]]
    /\ pc' = [pc EXCEPT ![p] =
                 IF FailedNotifications = <<>> THEN "done" ELSE "ntf_log"]
    /\ UNCHANGED <<forms, versions, fields, submissions, responses, queue,
                   logs, now, files>>

\* send_email_notification / send_webhook_notification: the pending log
NtfLog(p) ==
    /\ pc[p] = "ntf_log"
    /\ logs' = Append(logs, PendingLog(Head(loc[p].todo).submission,
                                       Head(loc[p].todo)))
    /\ loc' = [loc EXCEPT ![p].log = Len(logs) + 1]
    /\ pc' = [pc EXCEPT ![p] = "ntf_send"]
    /\ UNCHANGED <<forms, versions, fields, submissions, responses, queue,
                   now, files>>

\* log.status = ...; log.attempts += 1; log.save()
Attempted(log, ok) ==
    [log EXCEPT !.status = IF ok THEN "sent" ELSE "failed",
                !.attempts = @ + 1]

\* a task in which any failed delivery raises
AfterDeliveryRaising(l, ok) ==
    IF ~ok /\ l.op = "notify" THEN "ntf_fail"
    ELSE IF Tail(l.todo) = <<>> THEN "done" ELSE "ntf_log"

\* where a task goes on after a delivery: a failed webhook raises out of
\* send_submission_notification; retry_failed_notifications catches it;
\* a failed email is swallowed by send_email_notification
AfterDelivery(l, ok) ==
    IF ~ok /\ Head(l.todo).channel = "webhook" /\ l.op = "notify"
    THEN "ntf_fail"
    ELSE IF Tail(l.todo) = <<>> THEN "done" ELSE "ntf_log"

\* send_mail / requests.post succeeds or raises, and the log is updated
NtfSend(p, ok) ==
    /\ pc[p] = "ntf_send"
    /\ logs' = [logs EXCEPT ![loc[p].log] = Attempted(logs[loc[p].log], ok)]
    /\ loc' = [loc EXCEPT ![p].todo = Tail(loc[p].todo)]
    /\ pc' = [pc EXCEPT ![p] = AfterDelivery(loc[p], ok)]
    /\ UNCHANGED <<forms, versions, fields, submissions, responses, queue,
                   now, files>>

\* except Exception: the failure is logged, then re-raised
NtfFail(p) ==
    /\ pc[p] = "ntf_fail"
    /\ logs' = Append(logs, SystemLog(loc[p].sub, loc[p].retries))
    /\ pc' = [pc EXCEPT ![p] = "ntf_retry"]
    /\ UNCHANGED <<forms, versions, fields, submissions, responses, queue,
                   now, loc, files>>

\* autoretry_for=(Exception,): the task is sent again with retries + 1
\* unless request.retries has reached max_retries
NtfRetry(p) ==
    /\ pc[p] = "ntf_retry"
    /\ queue' = IF loc[p].retries < max_retries
                THEN Append(queue, [submission_id |-> loc[p].sub,
                                    retries |-> loc[p].retries + 1])
                ELSE queue
    /\ pc' = [pc EXCEPT ![p] = "done"]
    /\ UNCHANGED <<forms, versions, fields, submissions, responses, logs,
                   now, loc, files>>

(***************************************************************************)
(* The specifications.                                                     *)
(***************************************************************************)
Init ==
    /\ forms = <<NewFormRow>>
    /\ versions = <<>>
    /\ fields = <<>>
    /\ submissions = <<>>
    /\ responses = <<>>
    /\ queue = <<>>
    /\ logs = <<>>
    /\ files = <<>>
    /\ now = 1
    /\ pc = [p \in Procs |-> "idle"]
    /\ loc = [p \in Procs |-> Idle]

\* a request that makes a version arrives
StartVersioning(p) ==
    \/ StartCnv(p, 1)
    \/ \E attrs \in AttrsChoices :
          StartUpdate(p, "admin", 1, attrs, FALSE, <<>>)
    \/ \E attrs \in AttrsChoices, fdata \in FieldsDataChoices :
          StartUpdate(p, "admin", 1, attrs, TRUE, fdata)

\* a versioning request in progress runs its next statement
ContinueVersioning(p) ==
    \/ CnvRead(p)
    \/ CnvInsert(p)
    \/ CnvSave(p)
    \/ UpdSave(p)
    \/ UpdField(p)
    \/ UpdSchema(p)
    \/ Return(p)

\* versioning requests served concurrently, each statement committing on
\* its own (autocommit: no handler opens a transaction)
Next ==
    \E p \in Procs :
        \/ VersionBudget(MaxRaceVersions) /\ StartVersioning(p)
        \/ ContinueVersioning(p)

Spec == Init /\ [][Next]_vars

\* versioning requests served one after the other
NextSeq ==
    \E p \in Worker :
        \/ AllOthersIdle(p) /\ VersionBudget(MaxVersions) /\ StartVersioning(p)
        \/ ContinueVersioning(p)

SpecSeq == Init /\ [][NextSeq]_vars

\* the form ids a submission may name; one form exists
FormIdChoices == {1, 2}

\* a request of the submission API, or a form update, arrives
StartSubmission(p) ==
    \/ /\ VersionBudget(MaxSubVersions)
       /\ StartUpdate(p, "admin", 1, "keep", TRUE, <<FieldA, FieldB>>)
    \/ /\ SubmissionBudget(MaxSubs)
       /\ \E user \in Users, f \in FormIdChoices, payload \in PayloadChoices,
             status \in CreateStatusChoices :
             /\ status = "submitted" => ClockBudget(MaxTime)
             /\ StartSubCreate(p, user, f, payload, status)
    \/ /\ ClockBudget(MaxTime)
       /\ \E user \in Users, s \in DOMAIN submissions : StartSubmit(p, user, s)
    \/ /\ ClockBudget(MaxTime)
       /\ \E user \in Users, s \in DOMAIN submissions,
             new_status \in ReviewStatusChoices, notes \in ReviewNotesChoices :
             StartReview(p, user, s, new_status, notes)

\* a request in progress runs its next statement
ContinueSubmission(p) ==
    \/ CnvRead(p)
    \/ CnvInsert(p)
    \/ CnvSave(p)
    \/ UpdSave(p)
    \/ UpdField(p)
    \/ UpdSchema(p)
    \/ ValForm(p)
    \/ ValFields(p)
    \/ CrtForm(p)
    \/ CrtInsert(p)
    \/ CrtStamp(p)
    \/ CrtFields(p)
    \/ CrtResp(p)
    \/ CrtDelay(p)
    \/ SbmSave(p)
    \/ SbmDelay(p)
    \/ RevSave(p)
    \/ Return(p)

\* form updates and the submission API, served one after the other
NextSubSeq ==
    \E p \in Worker :
        \/ AllOthersIdle(p) /\ StartSubmission(p)
        \/ ContinueSubmission(p)

SpecSubSeq == Init /\ [][NextSubSeq]_vars

(***************************************************************************)
(* The submission API on its own: three forms (one active with a version,  *)
(* one deactivated, one never given a version) and every request of        *)
(* FormSubmissionViewSet.                                                  *)
(***************************************************************************)
LifecycleForms ==
    <<[is_active |-> TRUE, current_version |-> 1],
      [is_active |-> FALSE, current_version |-> 2],
      NewFormRow>>

\* the form ids a request may name; the last one names no form
LifecycleFormIds == DOMAIN LifecycleForms \cup {Len(LifecycleForms) + 1}

InitLifecycle ==
    /\ forms = LifecycleForms
    /\ fields = <<NewFieldRow(1, FieldA), NewFieldRow(1, FieldB),
                  NewFieldRow(2, FieldA)>>
    /\ versions = <<[form |-> 1, version_number |-> 1,
                     schema_json |-> BuildSchemaJsonOfUpdate(1)],
                    [form |-> 2, version_number |-> 1,
                     schema_json |-> BuildSchemaJsonOfUpdate(2)]>>
    /\ submissions = <<>>
    /\ responses = <<>>
    /\ queue = <<>>
    /\ logs = <<>>
    /\ files = <<>>
    /\ now = 1
    /\ pc = [p \in Procs |-> "idle"]
    /\ loc = [p \in Procs |-> Idle]

\* a create arrives, naming one of the forms, with one of the payloads
StartCreateOf(p, formIds, payloads) ==
    /\ SubmissionBudget(MaxSubs)
    /\ \E user \in Users, f \in formIds, payload \in payloads,
          status \in CreateStatusChoices :
          /\ status = "submitted" => ClockBudget(MaxTime)
          /\ StartSubCreate(p, user, f, payload, status)

\* a submit, a review or an update arrives; reviews: what the update may
\* carry for the review fields
StartTransitionOf(p, reviews) ==
    \/ /\ ClockBudget(MaxTime)
       /\ \E user \in Users, s \in DOMAIN submissions : StartSubmit(p, user, s)
    \/ /\ ClockBudget(MaxTime)
       /\ \E user \in Users, s \in DOMAIN submissions,
             new_status \in ReviewStatusChoices, notes \in ReviewNotesChoices :
             StartReview(p, user, s, new_status, notes)
    \/ \E user \in Users, s \in DOMAIN submissions,
          status \in UpdateStatusChoices, review \in reviews :
          StartUpdateSub(p, user, s, status, review)

\* a create in progress runs its next statement
ContinueCreate(p) ==
    \/ ValForm(p)
    \/ ValFields(p)
    \/ CrtForm(p)
    \/ CrtInsert(p)
    \/ CrtStamp(p)
    \/ CrtFields(p)
    \/ CrtResp(p)
    \/ CrtDelay(p)
    \/ Return(p)

\* a submit, a review or an update in progress runs its next statement
ContinueTransition(p) ==
    \/ SbmSave(p)
    \/ SbmDelay(p)
    \/ RevSave(p)
    \/ PatSave(p)

\* creates only, served one after the other
NextCreate ==
    \E p \in Worker :
        \/ AllOthersIdle(p)
           /\ StartCreateOf(p, LifecycleFormIds, PayloadChoices)
        \/ ContinueCreate(p)

SpecCreate == InitLifecycle /\ [][NextCreate]_vars

\* the submission API, its requests served one after the other
NextLifecycle ==
    \E p \in Worker :
        \/ AllOthersIdle(p)
           /\ \/ StartCreateOf(p, LifecycleFormIds, PayloadChoices)
              \/ StartTransitionOf(p, UpdateReviewChoices)
        \/ ContinueCreate(p)
        \/ ContinueTransition(p)

SpecLifecycle == InitLifecycle /\ [][NextLifecycle]_vars

\* the status transitions of the submissions of one form: creates of one
\* valid payload, submits, reviews, and updates of the status
NextTransitions ==
    \E p \in Worker :
        \/ AllOthersIdle(p)
           /\ \/ StartCreateOf(p, {1}, {PayloadAB})
              \/ StartTransitionOf(p, {""})
        \/ ContinueCreate(p)
        \/ ContinueTransition(p)

SpecTransitions == InitLifecycle /\ [][NextTransitions]_vars

(***************************************************************************)
(* The notification tasks on their own: one form with any of the           *)
(* notification targets below, one submitted submission and the message    *)
(* its create has sent.                                                    *)
(***************************************************************************)
\* Form.notification_emails
EmailsChoices == {<<>>, <<"e1">>, <<"e1", "e2">>}

\* Form.webhook_url, "" when blank
WebhookChoices == {"", "hook"}

InitNotify ==
    /\ \E emails \in EmailsChoices, url \in WebhookChoices :
          forms = <<[is_active |-> TRUE, current_version |-> 1,
                     notification_emails |-> emails, webhook_url |-> url]>>
    /\ fields = <<NewFieldRow(1, FieldA)>>
    /\ versions = <<[form |-> 1, version_number |-> 1,
                     schema_json |-> BuildSchemaJsonOfUpdate(1)]>>
    /\ submissions = <<Stamped(NewSubmissionRow(1, "alice", "submitted"), 1)>>
    /\ responses = <<[submission |-> 1, field |-> 1, value |-> VStr("x")]>>
    /\ queue = <<Message(1)>>
    /\ logs = <<>>
    /\ files = <<>>
    /\ now = 2
    /\ pc = [p \in Procs |-> "idle"]
    /\ loc = [p \in Procs |-> Idle]

\* room in the NotificationLog table for the logs a task makes
LogBudget(targets) == Len(logs) + Len(targets) + 1 <= MaxLogs

\* the worker runs the tasks one after the other; a delivery may succeed
\* or fail
NextNotify ==
    \E p \in Worker :
        \/ /\ queue # <<>>
           /\ LogBudget(TargetsOf(Head(queue).submission_id))
           /\ StartTask(p)
        \/ /\ LogBudget(FailedNotifications)
           /\ StartRetryFailed(p)
        \/ NtfLog(p)
        \/ \E ok \in BOOLEAN : NtfSend(p, ok)
        \/ NtfFail(p)
        \/ NtfRetry(p)
        \/ Return(p)

SpecNotify == InitNotify /\ [][NextNotify]_vars

(***************************************************************************)
(* The validator on its own: a version with any of the field lists below   *)
(* and a submission create that has passed validate_form_id, with any of   *)
(* the payloads below.                                                     *)
(***************************************************************************)
\* a config key that may be absent: <<>> is absent, <<x>> is set to x
ConfigKey(key, opt) == IF opt = <<>> THEN <<>> ELSE key :> opt[1]

OptLengths == {<<>>, <<0>>, <<2>>}
OptMinValues == {<<>>, <<0>>, <<1>>}
OptMaxValues == {<<>>, <<0>>, <<2>>}
OptOptions == {<<>>, << <<>> >>, << <<VStr("x"), VStr("y")>> >>,
               << <<VInt(1)>> >>}

TextConfigs ==
    {ConfigKey("min_length", mn) @@ ConfigKey("max_length", mx) :
        mn \in OptLengths, mx \in OptLengths}
NumberConfigs ==
    {ConfigKey("min_value", mn) @@ ConfigKey("max_value", mx) :
        mn \in OptMinValues, mx \in OptMaxValues}
OptionConfigs == {ConfigKey("options", o) : o \in OptOptions}

\* FormField.FIELD_TYPES with no check in _validate_field_value
UncheckedTypes == {"phone", "date", "checkbox", "file", "multi_file"}

FieldData(name, type, order, config) ==
    [name |-> name, field_type |-> type, order |-> order, config |-> config]

\* one field, every type, every configuration
SingleFieldLists ==
    {<<FieldData("a", ty, 0, c)>> : ty \in TextTypes, c \in TextConfigs}
    \cup {<<FieldData("a", "number", 0, c)>> : c \in NumberConfigs}
    \cup {<<FieldData("a", ty, 0, c)>> :
            ty \in OptionTypes \cup {"multi_select"}, c \in OptionConfigs}
    \cup {<<FieldData("a", ty, 0, <<>>)>> : ty \in UncheckedTypes}

\* the kinds of field a two-field version is made of
PairKinds ==
    {<<"text", [required |-> TRUE]>>,
     <<"text", [required |-> FALSE, min_length |-> 2]>>,
     <<"number", [required |-> TRUE]>>,
     <<"number", [min_value |-> 0]>>,
     <<"select", [options |-> <<VStr("x"), VStr("y")>>]>>}

\* two fields; the second one made may sort after or before the first
PairFieldLists ==
    {<<FieldData("a", ka[1], 1, ka[2]), FieldData("b", kb[1], ob, kb[2])>> :
        ka \in PairKinds, kb \in PairKinds, ob \in {0, 1}}

ValFieldLists == SingleFieldLists \cup PairFieldLists

RichValues ==
    {VNull, VBool(TRUE), VBool(FALSE), VFloat(1), VFloat(3),
     VStr(""), VStr("x"), VStr("xy"), VStr("xyz"),
     VList(<<>>), VList(<<VStr("x")>>), VList(<<VStr("x"), VStr("y")>>),
     VList(<<VStr("x"), VStr("w")>>), VList(<<VInt(1)>>)}
    \cup {VInt(i) : i \in -1..3}

PlainValues == {VStr("xy"), VStr(""), VInt(1)}

\* a payload key that may be absent
PayloadKey(key, opt) == IF opt = <<>> THEN <<>> ELSE key :> opt[1]

ValPayloads ==
    {PayloadKey("a", a) @@ PayloadKey("b", b) @@ PayloadKey("z", z) :
        a \in {<<>>} \cup {<<v>> : v \in RichValues},
        b \in {<<>>} \cup {<<v>> : v \in PlainValues},
        z \in {<<>>, <<VInt(1)>>}}

InitValidate ==
    /\ forms = <<[is_active |-> TRUE, current_version |-> 1]>>
    /\ \E fl \in ValFieldLists :
          fields = [k \in 1..Len(fl) |-> NewFieldRow(1, fl[k])]
    /\ versions = <<[form |-> 1, version_number |-> 1,
                     schema_json |-> BuildSchemaJsonOfUpdate(1)]>>
    /\ submissions = <<>>
    /\ responses = <<>>
    /\ queue = <<>>
    /\ logs = <<>>
    /\ files = <<>>
    /\ now = 1
    /\ pc = [p \in Procs |-> IF p \in Worker THEN "val_form" ELSE "idle"]
    /\ \E payload \in ValPayloads :
          loc = [p \in Procs |->
                    IF p \in Worker
                    THEN [Idle EXCEPT !.op = "sub_create", !.user = "alice",
                                      !.form = 1, !.payload = payload,
                                      !.status = "draft"]
                    ELSE Idle]

\* validate runs
NextValidate == \E p \in Worker : ValForm(p) \/ ValFields(p)

SpecValidate == InitValidate /\ [][NextValidate]_vars

\* is_active in a form create: absent (the default, active) or false
CreateAttrsChoices == {"keep", "deactivate"}

\* a request that makes a version of a form, old or new, arrives
StartForms(p) ==
    \/ /\ Len(forms) < MaxForms
       /\ \E attrs \in CreateAttrsChoices,
             fdata \in {<<>>} \cup FieldsDataChoices :
             StartFormCreate(p, "admin", attrs, fdata)
    \/ \E f \in DOMAIN forms, fdata \in FieldsDataChoices :
          StartUpdate(p, "admin", f, "keep", TRUE, fdata)
    \/ Len(forms) < MaxForms /\ \E f \in DOMAIN forms :
          StartDuplicate(p, "admin", f)

\* such a request runs its next statement
ContinueForms(p) ==
    \/ ContinueVersioning(p)
    \/ FrmInsert(p)
    \/ FrmField(p)
    \/ FrmSchema(p)
    \/ DupInsert(p)
    \/ DupRead(p)
    \/ DupField(p)

\* form create, form update and form duplicate, one after the other
NextForms ==
    \E p \in Worker :
        \/ AllOthersIdle(p) /\ VersionBudget(MaxVersions) /\ StartForms(p)
        \/ ContinueForms(p)

SpecForms == Init /\ [][NextForms]_vars

(***************************************************************************)
(* FileUploadViewSet.create.                                               *)
(***************************************************************************)
\* the rows of field_response.files
FilesOf(r) == {i \in DOMAIN files : files[i].field_response = r}

\* if not field_response_id or not file_obj: a file is falsy when it has
\* no name, whatever its size
UploadIncomplete(r, file) == r = 0 \/ file.name = ""

\* max_size_mb = config.get('max_size_mb', 10);
\* max_size_bytes = max_size_mb * 1024 * 1024
MaxSizeBytes(config) == ConfigGet(config, "max_size_mb", 10) * 1024 * 1024

\* a size check that also turns away a file of exactly the limit
SizeExceededAtLimit(size, max_size_bytes) == size >= max_size_bytes

\* file_obj.size > max_size_bytes
SizeExceeded(size, max_size_bytes) == size > max_size_bytes

\* t.replace('*', '') for the entries the forms use
StripStar(t) == IF t = "image/*" THEN "image/" ELSE t

\* file_obj.name.endswith(suffix); the names are told apart by extension
EndsWith(name, suffix) == name = suffix

\* accept = config.get('accept', ''); if accept: any(name.endswith(...));
\* the config holds the list that accept.split(',') and strip() make
TypeAllowed(config, name) ==
    LET accept == ConfigGet(config, "accept", <<>>)
    IN accept # <<>> =>
          \E k \in DOMAIN accept : EndsWith(name, StripStar(accept[k]))

\* the checks of create on the loaded field_response, up to the count
UploadCheck(user, sub, field, file) ==
    IF sub.submitted_by # user /\ ~IsStaff(user)
    THEN [err |-> "Permission denied", field |-> ""]
    ELSE IF field.field_type \notin {"file", "multi_file"}
    THEN [err |-> "Field does not support file uploads", field |-> field.name]
    ELSE IF SizeExceeded(file.size, MaxSizeBytes(field.config))
    THEN [err |-> "File size exceeds", field |-> field.name]
    ELSE IF ~TypeAllowed(field.config, file.name)
    THEN [err |-> "File type not allowed", field |-> field.name]
    ELSE NoError

\* a count check that lets one more file in
CountReachedStrict(current_count, max_files) == current_count > max_files

\* current_count >= max_files
CountReached(current_count, max_files) == current_count >= max_files

\* FileUpload.objects.create(field_response=..., file=file_obj,
\* original_filename=file_obj.name, file_size=file_obj.size, ...): create
\* saves the row without running the validators of the model fields
NewFileRow(r, file) ==
    [field_response |-> r, original_filename |-> file.name,
     file_size |-> file.size]

\* IsAuthenticated; the request is parsed; 400 when a part is missing
StartUpload(p, user, r, file) ==
    /\ pc[p] = "idle"
    /\ loc' = [loc EXCEPT ![p] =
                  [Idle EXCEPT !.op = "upload", !.user = user, !.resp = r,
                               !.file = file,
                               !.err = IF UploadIncomplete(r, file)
                                       THEN [err |-> "required", field |-> ""]
                                       ELSE NoError]]
    /\ pc' = [pc EXCEPT ![p] = IF UploadIncomplete(r, file)
                                THEN "done" ELSE "upl_read"]
    /\ UNCHANGED <<forms, versions, fields, submissions, responses, files,
                   queue, logs, now>>

\* FieldResponse.objects.select_related('submission', 'field').get(id=...)
\* and the checks on what it loaded
UplRead(p) ==
    /\ pc[p] = "upl_read"
    /\ IF loc[p].resp \notin DOMAIN responses
       THEN /\ loc' = [loc EXCEPT ![p].err =
                          [err |-> "Field response not found", field |-> ""]]
            /\ pc' = [pc EXCEPT ![p] = "done"]
       ELSE LET row == responses[loc[p].resp]
                field == fields[row.field]
                check == UploadCheck(loc[p].user, submissions[row.submission],
                                     field, loc[p].file)
            IN /\ loc' = [loc EXCEPT ![p].err = check, ![p].field = field]
               /\ pc' = [pc EXCEPT ![p] =
                            IF check # NoError THEN "done"
                            ELSE IF field.field_type = "multi_file"
                            THEN "upl_count" ELSE "upl_insert"]
    /\ UNCHANGED <<forms, versions, fields, submissions, responses, files,
                   queue, logs, now>>

\* max_files = config.get('max_files', 5);
\* current_count = field_response.files.count()
UplCount(p) ==
    /\ pc[p] = "upl_count"
    /\ IF CountReached(Cardinality(FilesOf(loc[p].resp)),
                       ConfigGet(loc[p].field.config, "max_files", 5))
       THEN /\ loc' = [loc EXCEPT ![p].err =
                          [err |-> "Maximum files", field |-> ""]]
            /\ pc' = [pc EXCEPT ![p] = "done"]
       ELSE /\ pc' = [pc EXCEPT ![p] = "upl_insert"]
            /\ UNCHANGED loc
    /\ UNCHANGED <<forms, versions, fields, submissions, responses, files,
                   queue, logs, now>>

\* file_upload = FileUpload.objects.create(...); 201
UplInsert(p) ==
    /\ pc[p] = "upl_insert"
    /\ files' = Append(files, NewFileRow(loc[p].resp, loc[p].file))
    /\ pc' = [pc EXCEPT ![p] = "done"]
    /\ UNCHANGED <<forms, versions, fields, submissions, responses,
                   queue, logs, now, loc>>

\* an upload in progress runs its next statement
ContinueUpload(p) ==
    \/ UplRead(p)
    \/ UplCount(p)
    \/ UplInsert(p)
    \/ Return(p)

\* the file fields of a form, with the config the admin gave them
FileField(config) ==
    [name |-> "doc", field_type |-> "file", order |-> 0, config |-> config]
MultiFileField(config) ==
    [name |-> "docs", field_type |-> "multi_file", order |-> 0,
     config |-> config]

\* a draft of one user on a form with a file field, a multi_file field and
\* a text field, each with its response row
InitUploads(owner, config) ==
    /\ forms = <<[is_active |-> TRUE, current_version |-> 1]>>
    /\ fields = <<NewFieldRow(1, FileField(config)),
                  NewFieldRow(1, MultiFileField(config)),
                  NewFieldRow(1, FieldA)>>
    /\ versions = <<[form |-> 1, version_number |-> 1,
                     schema_json |-> BuildSchemaJson(1)]>>
    /\ submissions = <<NewSubmissionRow(1, owner, "draft")>>
    /\ responses = [k \in 1..3 |->
                       [submission |-> 1, field |-> k, value |-> VStr("x")]]
    /\ files = <<>>
    /\ queue = <<>>
    /\ logs = <<>>
    /\ now = 1
    /\ pc = [p \in Procs |-> "idle"]
    /\ loc = [p \in Procs |-> Idle]

\* config of the file fields: the size limit and the accepted types
SizeConfigChoices ==
    {[n \in {} |-> 0], [max_size_mb |-> 1],
     [accept |-> <<".pdf", "image/*">>],
     [max_size_mb |-> 1, accept |-> <<".pdf", "image/*">>]}

\* config of the file fields: the number of files
CountConfigChoices ==
    {[n \in {} |-> 0], [max_files |-> 0], [max_files |-> 1],
     [max_files |-> 2]}

\* the sizes around the limits of 1 MB and of 10 MB, and the empty file
SizeChoices == {0, 1, 1048576, 1048577, 10485760, 10485761}

\* the file part of an upload: none, or a file of some name and size
FileChoices ==
    {NoFile} \cup [name : {".pdf", ".exe"}, size : SizeChoices]

InitUpload ==
    \E owner \in Users, config \in SizeConfigChoices :
        InitUploads(owner, config)

\* uploads of any file to any field response, one after the other
NextUpload ==
    \E p \in Worker :
        \/ /\ AllOthersIdle(p)
           /\ Len(files) < MaxUploads
           /\ \E user \in Users, r \in 0..(Len(responses) + 1),
                 file \in FileChoices : StartUpload(p, user, r, file)
        \/ ContinueUpload(p)

SpecUpload == InitUpload /\ [][NextUpload]_vars

InitUploadCount ==
    \E config \in CountConfigChoices : InitUploads("alice", config)

\* the response row of the multi_file field
MultiFileResponse ==
    CHOOSE r \in DOMAIN responses :
        fields[responses[r].field].field_type = "multi_file"

\* a small file of an accepted type arrives for the multi_file field
StartSmallUpload(p) ==
    /\ Len(files) < MaxFiles
    /\ \E user \in Users, size \in {1, 2} :
          StartUpload(p, user, MultiFileResponse,
                      [name |-> ".pdf", size |-> size])

\* uploads to the multi_file field, one after the other
NextUploadSeq ==
    \E p \in Worker :
        \/ AllOthersIdle(p) /\ StartSmallUpload(p)
        \/ ContinueUpload(p)

SpecUploadSeq == InitUploadCount /\ [][NextUploadSeq]_vars

\* uploads to the multi_file field served concurrently
NextUploadRace ==
    \E p \in Procs : StartSmallUpload(p) \/ ContinueUpload(p)

SpecUploadRace == InitUploadCount /\ [][NextUploadRace]_vars

\* a form update and submission creates on its form, served concurrently
NextSubRace ==
    \E p \in Procs :
        \/ /\ VersionBudget(MaxSubVersions)
           /\ StartUpdate(p, "admin", 1, "keep", TRUE, <<FieldA, FieldB>>)
        \/ StartCreateOf(p, {1}, PayloadChoices)
        \/ ContinueVersioning(p)
        \/ ContinueCreate(p)

SpecSubRace == Init /\ [][NextSubRace]_vars

\* a draft of alice, with its response rows
InitDraft == InitUploads("alice", [n \in {} |-> 0])

\* submit requests for the one draft, served concurrently
NextSubmitRace ==
    \E p \in Procs :
        \/ /\ ClockBudget(MaxTime)
           /\ \E user \in Users, s \in DOMAIN submissions :
                 StartSubmit(p, user, s)
        \/ SbmSave(p)
        \/ SbmDelay(p)
        \/ Return(p)

SpecSubmitRace == InitDraft /\ [][NextSubmitRace]_vars

(***************************************************************************)
(* The claims.                                                             *)
(***************************************************************************)
\* create_new_version has returned to its caller in request p
CnvReturned(p) ==
    /\ loc[p].op \in {"cnv", "update"}
    /\ loc[p].ver # 0
    /\ pc[p] \in {"done", "upd_field", "upd_schema"}

\* the version numbers of form f
NumbersOf(f) == {versions[i].version_number : i \in VersionsOf(f)}

\* C1: calls of create_new_version made one after the other on a form
\* return the versions numbered 1, 2, ..., N in call order: no call fails,
\* the k-th version made has number k, and once a call has returned the
\* form's current_version is the version it returned.
C1_SequentialNumbering ==
    /\ \A p \in Procs : loc[p].err.err # "IntegrityError"
    /\ \A f \in DOMAIN forms : \A i \in VersionsOf(f) :
          versions[i].version_number =
              Cardinality({j \in VersionsOf(f) : j <= i})
    /\ \A p \in Procs : CnvReturned(p) =>
          /\ versions[loc[p].ver].version_number =
                Cardinality(VersionsOf(loc[p].form))
          /\ forms[loc[p].form].current_version = loc[p].ver

\* C1 witness: a third call has returned version 3
C1_Witness ==
    \E p \in Procs :
        /\ CnvReturned(p)
        /\ pc[p] = "done"
        /\ versions[loc[p].ver].version_number = 3

\* C2: under any interleaving of concurrent create_new_version calls on a
\* form, the versions have distinct, contiguous numbers and every call
\* returns its own version: none ends in a conflict.
C2_ConcurrentCallsAllSucceed ==
    /\ \A i, j \in DOMAIN versions :
          (i # j /\ versions[i].form = versions[j].form)
              => versions[i].version_number # versions[j].version_number
    /\ \A f \in DOMAIN forms :
          NumbersOf(f) = 1..Cardinality(VersionsOf(f))
    /\ \A p \in Procs : loc[p].err.err # "IntegrityError"

\* C3: in every state, between the steps of create_new_version too, a form
\* that has a version has a current_version, and it is the form's
\* highest-numbered version.
C3_PointerMovesWithCreation ==
    \A f \in DOMAIN forms :
        VersionsOf(f) # {} =>
            /\ forms[f].current_version \in VersionsOf(f)
            /\ versions[forms[f].current_version].version_number =
                  Max(NumbersOf(f))

\* C4: no step of a later create_new_version, form update, submission
\* create, submit or review changes the form_version of a submission that
\* exists.
C4_VersionReferenceFrozen ==
    [][\A s \in DOMAIN submissions :
          /\ s \in DOMAIN submissions'
          /\ submissions'[s].form_version = submissions[s].form_version]_vars

\* C4 witness: a reviewed submission still refers to the version it was
\* made under, which is no longer the form's current version
C4_Witness ==
    \E s \in DOMAIN submissions :
        /\ submissions[s].status = "approved"
        /\ submissions[s].form_version # 0
        /\ forms[versions[submissions[s].form_version].form].current_version
              # submissions[s].form_version

\* the version that request p is building: its own new version
UnderConstruction(i) == \E p \in Procs : Busy(p) /\ loc[p].ver = i

\* C5: a step that makes a new version (create_new_version, or a form
\* update with fields) leaves every version that existed before the request
\* as it was: its row (number, schema_json), its fields, and it is there.
C5_PastVersionsUnchanged ==
    [][\A i \in DOMAIN versions :
          ~UnderConstruction(i) =>
              /\ i \in DOMAIN versions'
              /\ versions'[i] = versions[i]
              /\ FieldsOf(i)' = FieldsOf(i)
              /\ \A k \in FieldsOf(i) : fields'[k] = fields[k]]_vars

\* C5 witness: a second version has been completed after a first one that
\* has fields and a schema
C5_Witness ==
    \E i, j \in DOMAIN versions :
        /\ versions[i].form = versions[j].form
        /\ versions[i].version_number < versions[j].version_number
        /\ FieldsOf(i) # {} /\ versions[i].schema_json.has_fields
        /\ FieldsOf(j) # {} /\ versions[j].schema_json.has_fields
        /\ \A p \in Procs : pc[p] = "idle"

\* the FieldResponse rows of submission s
ResponsesOf(s) == {r \in DOMAIN responses : responses[r].submission = s}

\* the payload keys that name a field of version v
KnownKeys(v, payload) ==
    {n \in DOMAIN payload : \E k \in FieldsOf(v) : fields[k].name = n}

\* C6: a submission create that succeeds has made one FormSubmission with
\* the requested status on the form's current version, one FieldResponse
\* for each payload key that names a field of that version, on that field
\* and with the payload's value, and no other; submitted_at is set exactly
\* when the requested status is submitted.
C6_CreateMakesSubmissionAndResponses ==
    \A p \in Procs :
        (pc[p] = "done" /\ loc[p].op = "sub_create" /\ loc[p].err = NoError)
        => LET s == loc[p].sub
               v == forms[loc[p].form].current_version
           IN /\ s \in DOMAIN submissions
              /\ submissions[s].status = loc[p].status
              /\ submissions[s].form_version = v
              /\ submissions[s].submitted_by = loc[p].user
              /\ \A n \in KnownKeys(v, loc[p].payload) :
                    Cardinality({r \in ResponsesOf(s) :
                        /\ responses[r].field \in FieldsOf(v)
                        /\ fields[responses[r].field].name = n
                        /\ responses[r].value = loc[p].payload[n]}) = 1
              /\ Cardinality(ResponsesOf(s)) =
                    Cardinality(KnownKeys(v, loc[p].payload))
              /\ (submissions[s].submitted_at # 0)
                    <=> (loc[p].status = "submitted")

\* C6 witness: a create with status submitted and a payload with an unknown
\* key has succeeded on the form's second version
C6_Witness ==
    \E p \in Procs :
        /\ pc[p] = "done" /\ loc[p].op = "sub_create" /\ loc[p].err = NoError
        /\ loc[p].status = "submitted"
        /\ loc[p].payload = PayloadAZ
        /\ versions[submissions[loc[p].sub].form_version].version_number = 2

(***************************************************************************)
(* The validator (SpecValidate).                                           *)
(***************************************************************************)
\* validate has run for the create of process p
Validated(p) ==
    loc[p].op = "sub_create" /\ pc[p] \in {"crt_form", "done"}

\* validate has returned the data (no ValidationError)
Accepted(p) == Validated(p) /\ loc[p].err = NoError

\* the fields of the version validate read, in its order
CheckedFields(p) == FieldRows(loc[p].ver)

\* config.required is true
RequiredTrue(field) ==
    "required" \in DOMAIN field.config /\ field.config.required = TRUE

Supplied(p, field) == field.name \in DOMAIN loc[p].payload

\* the supplied value passes the checks of the field's type
PassesTypeChecks(p, field) ==
    ValidateFieldValue(field, loc[p].payload[field.name]) = NoError

\* the version has the one field a, of one of the types, and the payload
\* supplies a value for it
SingleFieldOf(p, types) ==
    /\ Validated(p)
    /\ Len(CheckedFields(p)) = 1
    /\ CheckedFields(p)[1].field_type \in types
    /\ Supplied(p, CheckedFields(p)[1])

\* C7 as stated: a payload that lacks a required field is rejected, and a
\* payload in which every required field is supplied with a value passing
\* its type checks is accepted.
C7_RequiredSuppliedSuffices ==
    \A p \in Worker :
        Validated(p) =>
            LET fs == CheckedFields(p)
            IN /\ (\E i \in DOMAIN fs :
                      RequiredTrue(fs[i]) /\ ~Supplied(p, fs[i]))
                  => ~Accepted(p)
               /\ (\A i \in DOMAIN fs :
                      RequiredTrue(fs[i])
                      => Supplied(p, fs[i]) /\ PassesTypeChecks(p, fs[i]))
                  => Accepted(p)

\* C7, amended: validate accepts a payload exactly when every required
\* field of the version is supplied and every value the payload supplies
\* for a field of the version, required or not, passes that field's type
\* checks; in particular a payload lacking a required field is rejected.
C7_AcceptedIffRequiredSuppliedAndValuesPass ==
    \A p \in Worker :
        Validated(p) =>
            LET fs == CheckedFields(p)
            IN Accepted(p) <=>
                  \A i \in DOMAIN fs :
                      /\ RequiredTrue(fs[i]) => Supplied(p, fs[i])
                      /\ Supplied(p, fs[i]) => PassesTypeChecks(p, fs[i])

\* C7 witness: a payload that lacked the required field b is accepted on a
\* version of two required fields once both are supplied; it also carries
\* a key that names no field
C7_Witness ==
    \E p \in Worker :
        /\ Accepted(p)
        /\ Len(CheckedFields(p)) = 2
        /\ \A i \in DOMAIN CheckedFields(p) :
              RequiredTrue(CheckedFields(p)[i])
        /\ DOMAIN loc[p].payload = {"a", "b", "z"}

\* C8 as stated: a value supplied for a number field is accepted exactly
\* when it is an integer or a float (not a string, boolean, list or null)
\* and lies within each of min_value and max_value that is set, 0 included,
\* the bounds themselves being accepted.
C8_NumberAcceptedIffNumericInRange ==
    \A p \in Worker :
        SingleFieldOf(p, {"number"}) =>
            LET field == CheckedFields(p)[1]
                value == loc[p].payload[field.name]
            IN Accepted(p) <=>
                  /\ value.k \in {"int", "float"}
                  /\ "min_value" \in DOMAIN field.config
                        => field.config.min_value <= value.n
                  /\ "max_value" \in DOMAIN field.config
                        => value.n <= field.config.max_value

\* C9 as stated: a value supplied for a text, textarea or email field is
\* accepted exactly when it is a string whose length is at least min_length
\* and at most max_length, for each of the two that is set, 0 included.
C9_TextAcceptedIffStringInLengthRange ==
    \A p \in Worker :
        SingleFieldOf(p, TextTypes) =>
            LET field == CheckedFields(p)[1]
                value == loc[p].payload[field.name]
            IN Accepted(p) <=>
                  /\ value.k = "str"
                  /\ "min_length" \in DOMAIN field.config
                        => field.config.min_length <= Len(value.s)
                  /\ "max_length" \in DOMAIN field.config
                        => Len(value.s) <= field.config.max_length

\* config.options, nothing when the key is absent
OptionsOf(field) ==
    IF "options" \in DOMAIN field.config THEN field.config.options ELSE <<>>

\* the value equals (Python ==) one of the options
MemberOf(value, options) == \E i \in DOMAIN options : PyEq(value, options[i])

KnownPart(v, payload) == [n \in KnownKeys(v, payload) |-> payload[n]]

\* validate has answered the create of process p
CreateValidated(p) ==
    /\ loc[p].op = "sub_create"
    /\ pc[p] \notin {"idle", "val_form", "val_fields"}
    /\ loc[p].err.field # "form_id"

\* the create of process p has returned a submission
CreateSucceeded(p) ==
    pc[p] = "done" /\ loc[p].op = "sub_create" /\ loc[p].err = NoError

\* C11: payload keys that name no field of the current version are
\* ignored: validate answers a payload as it answers the payload without
\* those keys, and on acceptance every FieldResponse made belongs to a
\* payload key that names a field, none to another key.
C11_UnknownKeysIgnored ==
    \A p \in Procs :
        /\ CreateValidated(p) =>
              loc[p].err = Validate(loc[p].ver,
                                    KnownPart(loc[p].ver, loc[p].payload))
        /\ CreateSucceeded(p) =>
              /\ \A r \in ResponsesOf(loc[p].sub) :
                    /\ responses[r].field \in FieldsOf(loc[p].ver)
                    /\ fields[responses[r].field].name
                          \in DOMAIN loc[p].payload
              /\ Cardinality(ResponsesOf(loc[p].sub)) =
                    Cardinality(KnownKeys(loc[p].ver, loc[p].payload))

\* C11 witness: a create whose payload carries the unknown key z has
\* succeeded and made the one FieldResponse of its known key
C11_Witness ==
    \E p \in Procs :
        /\ CreateSucceeded(p)
        /\ "z" \in DOMAIN loc[p].payload
        /\ Cardinality(ResponsesOf(loc[p].sub)) = 1

\* the form id names no form, a deactivated form, or a form that has no
\* current version
NoUsableForm(f) ==
    \/ f \notin DOMAIN forms
    \/ ~forms[f].is_active
    \/ forms[f].current_version = 0

\* C12: a create that names a form that does not exist, is inactive or
\* has no current version fails at once, and neither then nor later makes
\* a FormSubmission or a FieldResponse.
C12_CreateNeedsUsableForm ==
    [][\A p \in Procs :
          /\ (/\ pc[p] = "idle"
              /\ pc'[p] # "idle"
              /\ loc'[p].op = "sub_create"
              /\ NoUsableForm(loc'[p].form))
             => /\ pc'[p] = "done"
                /\ loc'[p].err # NoError
                /\ loc'[p].sub = 0
                /\ submissions' = submissions
                /\ responses' = responses
          /\ (/\ pc[p] = "done"
              /\ loc[p].op = "sub_create"
              /\ loc[p].err # NoError)
             => /\ submissions' = submissions
                /\ responses' = responses]_vars

\* C12 witness: a create on the deactivated form has failed and no
\* submission exists
C12_Witness ==
    \E p \in Procs :
        /\ pc[p] = "done" /\ loc[p].op = "sub_create"
        /\ loc[p].form \in DOMAIN forms
        /\ ~forms[loc[p].form].is_active
        /\ loc[p].err # NoError
        /\ submissions = <<>> /\ responses = <<>>

\* C13 as stated: in every state of the database, a submission has all
\* the FieldResponses its accepted payload calls for, and a submission
\* with status submitted has submitted_at set.
C13_CreateIsAtomic ==
    \A s \in DOMAIN submissions :
        /\ submissions[s].status = "submitted"
              => submissions[s].submitted_at # 0
        /\ \A p \in Procs :
              (loc[p].op = "sub_create" /\ loc[p].sub = s)
              => \A n \in KnownKeys(loc[p].ver, loc[p].payload) :
                    \E r \in ResponsesOf(s) :
                        fields[responses[r].field].name = n

(***************************************************************************)
(* The submission lifecycle (SpecTransitions, SpecLifecycle).              *)
(***************************************************************************)
\* process p takes up a request of the kind op in this step
Arrives(p, op) ==
    pc[p] = "idle" /\ pc'[p] # "idle" /\ loc'[p].op = op

\* the request of process p has failed
Failed(p) == pc[p] = "done" /\ loc[p].err # NoError

\* C14: submit succeeds only on a draft, and then sets the status to
\* submitted, stamps submitted_at and emits the notification event; on any
\* other status it fails, changes nothing of the submission and emits no
\* event.
C14_SubmitOnlyFromDraft ==
    [][\A p \in Procs :
          /\ Arrives(p, "submit") =>
                /\ submissions[loc'[p].sub].status # "draft"
                      => /\ pc'[p] = "done"
                         /\ loc'[p].err # NoError
                /\ pc'[p] = "done"
                      => /\ loc'[p].err # NoError
                         /\ submissions' = submissions
                         /\ queue' = queue
          /\ (loc[p].op = "submit" /\ Failed(p))
                => /\ submissions' = submissions
                   /\ queue' = queue
          /\ (loc[p].op = "submit" /\ pc[p] = "sbm_save")
                => /\ submissions[loc[p].sub].status = "draft"
                   /\ submissions' =
                         [submissions EXCEPT
                             ![loc[p].sub].status = "submitted",
                             ![loc[p].sub].submitted_at = now]
                   /\ now # 0
                   /\ queue' = queue
          /\ (loc[p].op = "submit" /\ pc[p] = "sbm_delay")
                => /\ queue' = Append(queue, Message(loc[p].sub))
                   /\ submissions' = submissions]_vars

\* C14 witness: a submit on a submission that had left draft has failed
C14_Witness ==
    \E p \in Procs :
        /\ loc[p].op = "submit" /\ Failed(p)
        /\ loc[p].err.err = "Only draft submissions can be submitted"
        /\ submissions[loc[p].sub].status \in ReviewStatuses

\* C15 as stated: an administrator's review to under_review, approved or
\* rejected succeeds from submitted; a review of a draft, approved or
\* rejected submission fails; a review to any other status fails; a failed
\* review changes nothing.
C15_ReviewGuardedByCurrentStatus ==
    [][\A p \in Procs :
          Arrives(p, "review") =>
              LET cur == submissions[loc'[p].sub].status
                  new == loc'[p].status
              IN /\ (/\ cur = "submitted"
                     /\ new \in ReviewStatuses
                     /\ IsStaff(loc'[p].user))
                    => loc'[p].err = NoError
                 /\ cur \in {"draft", "approved", "rejected"}
                    => loc'[p].err # NoError
                 /\ new \notin ReviewStatuses => loc'[p].err # NoError
                 /\ loc'[p].err # NoError
                    => pc'[p] = "done" /\ submissions' = submissions]_vars

\* C16 as stated: a submission in under_review, approved or rejected never
\* has status draft or submitted afterwards, and a submitted one never has
\* status draft afterwards.
C16_LifecycleOneWay ==
    [][\A s \in DOMAIN submissions :
          /\ submissions[s].status \in ReviewStatuses
                => submissions'[s].status \notin {"draft", "submitted"}
          /\ submissions[s].status = "submitted"
                => submissions'[s].status # "draft"]_vars

\* no request is in progress
Quiescent == \A p \in Procs : pc[p] \in {"idle", "done"}

\* C17 as stated: between requests a submission has submitted_at set
\* exactly when its status is not draft, and a submitted_at that is set is
\* never changed.
C17_SubmittedAtSetOnce ==
    [][/\ Quiescent' =>
              \A s \in DOMAIN submissions' :
                  submissions'[s].submitted_at # 0
                      <=> submissions'[s].status # "draft"
       /\ \A s \in DOMAIN submissions :
              submissions[s].submitted_at # 0
                  => submissions'[s].submitted_at
                        = submissions[s].submitted_at]_vars

\* C18 as stated: whenever a submission's status becomes under_review,
\* approved or rejected, or its reviewed_by, reviewed_at or review_notes
\* changes, the request that does it is a staff user's.
C18_ReviewIsStaffOnly ==
    [][\A s \in DOMAIN submissions :
          (\/ /\ submissions'[s].status \in ReviewStatuses
              /\ submissions'[s].status # submissions[s].status
           \/ submissions'[s].reviewed_by # submissions[s].reviewed_by
           \/ submissions'[s].reviewed_at # submissions[s].reviewed_at
           \/ submissions'[s].review_notes # submissions[s].review_notes)
          => \E p \in Procs : pc'[p] # pc[p] /\ IsStaff(loc[p].user)]_vars

\* the request process p completes in this step has made its submission
\* enter submitted
EnteredSubmitted(p) ==
    /\ loc'[p].err = NoError
    /\ \/ loc'[p].op = "sub_create" /\ loc'[p].status = "submitted"
       \/ loc'[p].op = "submit"
       \/ /\ loc'[p].op = "sub_update"
          /\ loc'[p].sinst.status # "submitted"
          /\ submissions'[loc'[p].sub].status = "submitted"

\* C19 as stated: a request emits the notification event of its
\* submission, once and as it completes, exactly when it has made the
\* submission enter submitted; no other step emits an event.
C19_EventExactlyOnEnteringSubmitted ==
    [][\A p \in Procs :
          pc'[p] # pc[p] =>
              IF pc'[p] = "done" /\ EnteredSubmitted(p)
              THEN queue' = Append(queue, Message(loc'[p].sub))
              ELSE queue' = queue]_vars

(***************************************************************************)
(* Notification retries (SpecNotify).                                      *)
(***************************************************************************)
\* the logs of the deliveries made to one recipient of a submission
DeliveriesTo(target) ==
    {i \in DOMAIN logs :
        /\ logs[i].submission = target.submission
        /\ logs[i].channel = target.channel
        /\ logs[i].recipient = target.recipient
        /\ logs[i].status # "pending"}

\* the log is one retry_failed_notifications picks up
EligibleForRetry(i) ==
    logs[i].status = "failed" /\ logs[i].attempts < RetryAttemptsLimit

\* C20 as stated: for any submission and recipient, the task's automatic
\* retries and the periodic runs together attempt delivery at most 3
\* times, and after 3 failed attempts no log of that recipient is eligible
\* for another retry.
C20_RetriesBounded ==
    \A s \in DOMAIN submissions :
        \A k \in DOMAIN TargetsOf(s) :
            LET mine == DeliveriesTo(TargetsOf(s)[k])
            IN /\ Cardinality(mine) <= 3
               /\ (/\ Cardinality(mine) = 3
                   /\ \A i \in mine : logs[i].status = "failed")
                  => \A i \in mine : ~EligibleForRetry(i)

\* a run of send_submission_notification has ended
RunEnded(p) == pc[p] = "done" /\ loc[p].op = "notify"

\* the logs the run that has ended made for its deliveries: the last ones
\* of the table, before the log of the except block if the run raised
RunLogs(p) ==
    LET n == Len(TargetsOf(loc[p].sub))
        raised == logs # <<>> /\ logs[Len(logs)].recipient = "system"
        first == Len(logs) - n - (IF raised THEN 1 ELSE 0)
    IN [k \in 1..n |-> first + k]

\* C21: in one run of send_submission_notification every configured email
\* recipient and the webhook get their delivery attempt, whichever
\* deliveries fail, and each ends the run with a NotificationLog of its own
\* in status sent or failed; no log is left pending.
C21_DeliveryIndependentPerRecipient ==
    \A p \in Procs :
        RunEnded(p) =>
            LET targets == TargetsOf(loc[p].sub)
            IN /\ Len(logs) >= Len(targets)
               /\ \A k \in DOMAIN targets :
                     LET log == logs[RunLogs(p)[k]]
                     IN /\ RunLogs(p)[k] \in DOMAIN logs
                        /\ log.submission = loc[p].sub
                        /\ log.channel = targets[k].channel
                        /\ log.recipient = targets[k].recipient
                        /\ log.status \in {"sent", "failed"}
                        /\ log.attempts = 1
               /\ \A i \in DOMAIN logs : logs[i].status # "pending"

\* C21 witness: a run with two email recipients and a webhook has ended
\* with the first email failed, the second email and the webhook sent
C21_Witness ==
    \E p \in Procs :
        /\ RunEnded(p)
        /\ Len(TargetsOf(loc[p].sub)) = 3
        /\ Len(logs) >= 3
        /\ logs[RunLogs(p)[1]].status = "failed"
        /\ logs[RunLogs(p)[2]].status = "sent"
        /\ logs[RunLogs(p)[3]].status = "sent"

\* a delivery to the recipient of the log has succeeded before
AlreadySent(i) ==
    \E j \in DOMAIN logs :
        /\ j # i
        /\ logs[j].submission = logs[i].submission
        /\ logs[j].channel = logs[i].channel
        /\ logs[j].recipient = logs[i].recipient
        /\ logs[j].status = "sent"

\* C22 as stated: a run of send_submission_notification that is a retry
\* delivers nothing to a recipient whose delivery has already succeeded.
C22_TaskIdempotentUnderRetry ==
    [][\A p \in Procs :
          (/\ loc[p].op = "notify"
           /\ loc[p].retries > 0
           /\ pc[p] = "ntf_send"
           /\ logs'[loc[p].log].status = "sent")
          => ~AlreadySent(loc[p].log)]_vars

(***************************************************************************)
(* The order of the validation steps (SpecValidate).                       *)
(***************************************************************************)
\* C26 as stated: when the payload omits a required field, the one error
\* validate reports is the missing-required one, whatever else the payload
\* carries and whatever the order of the fields.
C26_RequiredCheckedFirst ==
    \A p \in Worker :
        (/\ Validated(p)
         /\ \E i \in DOMAIN CheckedFields(p) :
               /\ RequiredTrue(CheckedFields(p)[i])
               /\ ~Supplied(p, CheckedFields(p)[i]))
        => loc[p].err.err = "required"

(***************************************************************************)
(* The schema document of a new version (SpecForms).                       *)
(***************************************************************************)
\* request p was a form create, a form update with fields or a form
\* duplicate, and it has returned without an error
MadeVersion(p) ==
    /\ pc[p] = "done"
    /\ loc[p].err = NoError
    /\ \/ loc[p].op \in {"form_create", "duplicate"}
       \/ loc[p].op = "update" /\ loc[p].has_fields

\* the document {fields: [...]} with one entry per field of version v in
\* (order, creation) order, each with id, name, label, type, order, config
\* and validation_rules
FullSchema(v) ==
    [has_fields |-> TRUE,
     fields |-> [k \in 1..Len(FieldIds(v)) |->
                    LET i == FieldIds(v)[k]
                    IN [id |-> i, name |-> fields[i].name,
                        label |-> fields[i].name,
                        type |-> fields[i].field_type,
                        order |-> fields[i].order,
                        config |-> fields[i].config, has_rules |-> TRUE]]]

\* C25 as stated: after a form create, a form update with fields or a form
\* duplicate, the schema_json of the new version is the full document of
\* its fields.
C25_SchemaJsonOfNewVersion ==
    \A p \in Procs :
        MadeVersion(p) => versions[loc[p].ver].schema_json = FullSchema(loc[p].ver)

(***************************************************************************)
(* File uploads (SpecUpload, SpecUploadSeq, SpecUploadRace).               *)
(***************************************************************************)
\* the upload of request p ends with this step
UploadEnds(p) ==
    loc[p].op = "upload" /\ pc[p] # "done" /\ pc'[p] = "done"

UploadEnded(p) == loc[p].op = "upload" /\ pc[p] = "done"

\* the upload of request p names a response row of a file field and comes
\* from the owner of the submission or from staff: only its size and its
\* type are left to decide
ReachesSizeCheck(p) ==
    /\ loc[p].resp \in DOMAIN responses
    /\ LET row == responses[loc[p].resp]
       IN /\ fields[row.field].field_type \in {"file", "multi_file"}
          /\ \/ submissions[row.submission].submitted_by = loc[p].user
             \/ IsStaff(loc[p].user)

\* config.max_size_mb x 1,048,576 of the field of response row r, 10 MB
\* when the config does not say
LimitBytes(r) ==
    LET config == fields[responses[r].field].config
    IN (IF "max_size_mb" \in DOMAIN config THEN config.max_size_mb ELSE 10)
          * 1048576

\* C23: an upload that reaches the size check is rejected for its size, and
\* stores no FileUpload, exactly when its size is above max_size_mb x
\* 1,048,576 (10 MB by default); a file of exactly the limit is not
\* rejected for its size.
C23_SizeLimit ==
    [][\A p \in Procs :
          (UploadEnds(p) /\ ReachesSizeCheck(p)) =>
             IF loc[p].file.size > LimitBytes(loc[p].resp)
             THEN /\ loc'[p].err.err = "File size exceeds"
                  /\ files' = files
             ELSE loc'[p].err.err # "File size exceeds"]_vars

\* a file of exactly the default limit of 10 MB has been stored
C23_Witness ==
    \E p \in Procs :
        /\ UploadEnded(p)
        /\ loc[p].err = NoError
        /\ "max_size_mb" \notin DOMAIN loc[p].field.config
        /\ loc[p].file.size = 10485760
        /\ \E i \in FilesOf(loc[p].resp) : files[i].file_size = 10485760

\* config.max_files of the field of response row r, 5 when the config does
\* not say
LimitFiles(r) ==
    LET config == fields[responses[r].field].config
    IN IF "max_files" \in DOMAIN config THEN config.max_files ELSE 5

\* C24: uploads to a multi_file field arriving one after the other are
\* accepted while fewer than max_files (5 by default) files are attached,
\* and rejected from then on, the attached files staying as they were.
C24_SequentialUploadsUpToMaxFiles ==
    [][\A p \in Procs :
          (UploadEnds(p) /\ loc[p].resp = MultiFileResponse) =>
             LET r == loc[p].resp
             IN IF Cardinality(FilesOf(r)) < LimitFiles(r)
                THEN /\ loc'[p].err = NoError
                     /\ files' = Append(files, NewFileRow(r, loc[p].file))
                ELSE /\ loc'[p].err.err = "Maximum files"
                     /\ files' = files]_vars

\* the sixth upload to a field with the default limit has been rejected
C24_Witness ==
    \E p \in Procs :
        /\ UploadEnded(p)
        /\ loc[p].err.err = "Maximum files"
        /\ "max_files" \notin DOMAIN loc[p].field.config
        /\ Cardinality(FilesOf(loc[p].resp)) = 5

\* C27 as stated: every stored FileUpload has a file_size above zero.
C27_FileSizePositive == \A i \in DOMAIN files : files[i].file_size > 0

\* C30 as stated: the files attached to a multi_file response never
\* outnumber max_files, however concurrent uploads interleave.
C30_CountNeverExceedsMaxFiles ==
    \A r \in DOMAIN responses :
        fields[responses[r].field].field_type = "multi_file"
            => Cardinality(FilesOf(r)) <= LimitFiles(r)

(***************************************************************************)
(* Requests served concurrently (SpecSubRace, SpecSubmitRace).             *)
(***************************************************************************)
\* the payload that submission s stores: field name -> value of its rows
StoredPayload(s) ==
    [n \in {fields[responses[r].field].name : r \in ResponsesOf(s)} |->
        responses[CHOOSE r \in ResponsesOf(s) :
                     fields[responses[r].field].name = n].value]

\* C28 as stated: once the requests have returned, what a submission
\* stores passes the required-field and type checks of the fields of its
\* own form_version, however the create interleaved with a form update.
C28_StoredPayloadFitsOwnVersion ==
    Quiescent =>
        \A s \in DOMAIN submissions :
            Validate(submissions[s].form_version, StoredPayload(s)) = NoError

\* the notification events of submission s
EventsFor(s) == {i \in DOMAIN queue : queue[i].submission_id = s}

\* C29 as stated: of the submit requests for one draft only one succeeds:
\* a submitted_at that is set is never written again and the submission
\* never has more than one event.
C29_OneSubmitWins ==
    [][\A s \in DOMAIN submissions :
          /\ submissions[s].submitted_at # 0
                => submissions'[s].submitted_at = submissions[s].submitted_at
          /\ Cardinality({i \in DOMAIN queue' :
                             queue'[i].submission_id = s}) <= 1]_vars

====
